---------------------------- MODULE Spec2Model ----------------------------
(***************************************************************************)
(* Rosebud: the news ingestion stage (scripts/fetch-news.mjs) and the      *)
(* analysis stage (scripts/analyse-news.mjs).                              *)
(*                                                                         *)
(* Texts are sequences of one-character strings, so that the regular       *)
(* expressions of the political taxonomy and of the place names, the       *)
(* whitespace normalisation, the de-duplication key and the tokeniser are  *)
(* computed character by character, as the scripts compute them.           *)
(***************************************************************************)
EXTENDS Integers, Sequences, FiniteSets

VARIABLES
  pc,        \* position of main(): "delay", "parse", "write", "done", "exit1", "idle"
  si,        \* index into SOURCES of the source being fetched
  ci,        \* index of the candidate URL being tried for that source
  trace,     \* history of delay() calls and parseURL() calls with their outcome
  all,       \* the array `all` of main(): accepted (political) items
  allFrom,   \* history: for each element of `all`, the <<source, candidate>> it came from
  warned,    \* sources for which "Feed failed" was logged
  newsJson,  \* content of public/data/news.json
  exitCode,  \* process exit status: <<>> while running, then <<0>> or <<1>>
  title,     \* classifier run: the title argument
  summary,   \* classifier run: the summary argument
  verdict,   \* classifier run: <<>> before the call, then <<the value returned>>
  newsReadable, \* analysis: what reading and parsing news.json comes to:
                \* "ok", "missing" (readFile rejects), "corrupt" (JSON.parse throws)
  newsItems, \* analysis: the array `items` of main()
  ii,        \* analysis: index into `items` of the next item of the loop
  buckets,   \* analysis: the Map `buckets`, as a sequence of entries in insertion order
  moodJson,  \* content of public/data/mood.json: <<>> while there is none
  logged,    \* analysis: <<>>, or <<the cause console.error printed>>
  written,   \* history: the `areas` of every mood.json written so far
  theItem,   \* analysis: <<>>, or <<the item `it` inferPlaces was last called with>>
  places,    \* analysis: <<>>, or <<the array inferPlaces(it) returned>>
  phr,       \* analysis: <<>>, or <<the {uni, bi} phrases(title, summary) returned>>
  page,      \* dashboard: "closed", "load" (before the first render) or "open"
  html,      \* useFetchWiki: the state `html`
  loading,   \* useFetchWiki: the state `loading`
  error,     \* useFetchWiki: the state `error`
  fetchedAt, \* useFetchWiki: the state `fetchedAt`: <<>> for null, else <<a time>>
  reqs,      \* the fetchPage calls in the order started, each at "fetch" (awaiting
             \* fetch), "text" (awaiting res.text()), "ok" or "failed"
  filter,    \* App: the selected tab
  panel,     \* whether InsightsPanel is mounted
  mood,      \* InsightsPanel: the `areas` of the state `mood`
  moodReq,   \* InsightsPanel: its fetch of mood.json: "none", "pending" or "done"
  topIssues, \* InsightsPanel: the topIssues of the last render
  hotspots,  \* InsightsPanel: the hotspots of the last render
  prevVolumes, \* localStorage "rosebud_prevVolumes": <<>> or <<the stored object>>
  prevSession  \* what "rosebud_prevVolumes" held when the page was opened

ingestVars == <<si, ci, trace, all, allFrom, warned, verdict>>

analysisVars == <<newsReadable, newsItems, ii, buckets, moodJson, logged, written,
                  theItem, places, phr>>

panelVars == <<panel, mood, moodReq, topIssues, hotspots, prevVolumes>>

appVars == <<page, html, loading, error, fetchedAt, reqs, filter, panel, mood,
             moodReq, topIssues, hotspots, prevVolumes, prevSession>>

vars == <<pc, si, ci, trace, all, allFrom, warned, newsJson, exitCode,
          title, summary, verdict, newsReadable, newsItems, ii, buckets,
          moodJson, logged, written, theItem, places, phr,
          page, html, loading, error, fetchedAt, reqs, filter, panel, mood,
          moodReq, topIssues, hotspots, prevVolumes, prevSession>>

\* the dashboard is not open
AppIdle ==
  /\ page = "closed"
  /\ html = ""
  /\ loading = FALSE
  /\ error = ""
  /\ fetchedAt = <<>>
  /\ reqs = <<>>
  /\ filter = "Polling averages"
  /\ panel = FALSE
  /\ mood = <<>>
  /\ moodReq = "none"
  /\ topIssues = <<>>
  /\ hotspots = <<>>
  /\ prevVolumes = <<>>
  /\ prevSession = <<>>

\* the analysis stage has not run
AnalysisIdle ==
  /\ newsReadable = "ok"
  /\ newsItems = <<>>
  /\ ii = 1
  /\ buckets = <<>>
  /\ moodJson = <<>>
  /\ logged = <<>>
  /\ written = <<>>
  /\ theItem = <<>>
  /\ places = <<>>
  /\ phr = <<>>

-----------------------------------------------------------------------------
(* Characters and strings *)

UpperCase == <<"A","B","C","D","E","F","G","H","I","J","K","L","M",
               "N","O","P","Q","R","S","T","U","V","W","X","Y","Z">>
LowerCase == <<"a","b","c","d","e","f","g","h","i","j","k","l","m",
               "n","o","p","q","r","s","t","u","v","w","x","y","z">>
Digits == {"0","1","2","3","4","5","6","7","8","9"}

\* the lower-case letter of each upper-case letter
LowerOfUpper ==
  [ c \in { UpperCase[i] : i \in 1..26 } |->
      LowerCase[CHOOSE i \in 1..26 : UpperCase[i] = c] ]

\* String.prototype.toLowerCase, one character
ToLowerChar(c) == IF c \in DOMAIN LowerOfUpper THEN LowerOfUpper[c] ELSE c

\* String.prototype.toLowerCase
ToLower(s) == [ i \in 1..Len(s) |-> ToLowerChar(s[i]) ]

\* the characters of the class \w of a JavaScript regular expression
WordChars ==
  { UpperCase[i] : i \in 1..26 } \cup { LowerCase[i] : i \in 1..26 }
    \cup Digits \cup { "_" }

IsWordChar(c) == c \in WordChars

\* the class \s, for the characters the model uses
IsSpace(c) == c \in {" ", "\n", "\t"}

\* the pattern text occurs in t at index i, letters compared under the "i" flag
MatchAt(pat, t, i) ==
  /\ i >= 1
  /\ i + Len(pat) - 1 <= Len(t)
  /\ \A k \in 1..Len(pat) : ToLowerChar(t[i + k - 1]) = ToLowerChar(pat[k])

\* the assertion \b holds just before index i of t (i = Len(t)+1: at the end)
WordBoundary(t, i) ==
  LET before == i - 1 \in 1..Len(t) /\ IsWordChar(t[i - 1])
      after  == i \in 1..Len(t) /\ IsWordChar(t[i])
  IN before # after

\* new RegExp(`\\b${s}\\b`, "i").test(t)
TestWholeWord(s, t) ==
  \E i \in 1..(Len(t) + 1) :
    /\ WordBoundary(t, i)
    /\ MatchAt(s, t, i)
    /\ WordBoundary(t, i + Len(s))

\* new RegExp(s, "i").test(t)
TestAnywhere(s, t) == \E i \in 1..(Len(t) + 1) : MatchAt(s, t, i)

-----------------------------------------------------------------------------
(* The political taxonomy *)

INCLUDE ==
  <<
    <<"e","l","e","c","t","i","o","n">>,
    <<"b","y","-","e","l","e","c","t","i","o","n">>,
    <<"b","y"," ","e","l","e","c","t","i","o","n">>,
    <<"c","o","u","n","c","i","l">>,
    <<"c","o","u","n","c","i","l","l","o","r">>,
    <<"c","o","u","n","c","i","l"," ","t","a","x">>,
    <<"l","o","c","a","l"," ","p","l","a","n">>,
    <<"m","a","y","o","r">>,
    <<"c","o","m","b","i","n","e","d"," ","a","u","t","h","o","r","i","t","y">>,
    <<"p","a","r","l","i","a","m","e","n","t">>,
    <<"m","p"," ">>,
    <<"m","p","s"," ">>,
    <<"m","s","p","s">>,
    <<"m","s"," ">>,
    <<"s","e","n","e","d","d">>,
    <<"s","t","o","r","m","o","n","t">>,
    <<"w","e","s","t","m","i","n","s","t","e","r">>,
    <<"w","h","i","t","e","h","a","l","l">>,
    <<"m","a","n","i","f","e","s","t","o">>,
    <<"p","o","l","i","c","y">>,
    <<"p","l","e","d","g","e">>,
    <<"b","i","l","l">>,
    <<"a","c","t">>,
    <<"l","e","g","i","s","l","a","t","i","o","n">>,
    <<"c","o","m","m","i","t","t","e","e">>,
    <<"s","e","l","e","c","t"," ","c","o","m","m","i","t","t","e","e">>,
    <<"p","o","l","l">>,
    <<"p","o","l","l","i","n","g">>,
    <<"m","r","p">>,
    <<"s","e","a","t"," ","p","r","o","j","e","c","t","i","o","n">>,
    <<"s","w","i","n","g">>,
    <<"c","o","n","s","t","i","t","u","e","n","c","y">>,
    <<"b","u","d","g","e","t">>,
    <<"s","p","e","n","d","i","n","g">>,
    <<"t","a","x">>,
    <<"n","h","s">>,
    <<"s","c","h","o","o","l","s">>,
    <<"h","o","u","s","i","n","g">>,
    <<"p","l","a","n","n","i","n","g">>,
    <<"i","m","m","i","g","r","a","t","i","o","n">>,
    <<"b","e","n","e","f","i","t","s">>,
    <<"d","e","v","o","l","u","t","i","o","n">>,
    <<"t","r","a","n","s","p","o","r","t">>,
    <<"r","a","i","l">>,
    <<"b","u","s","e","s">>,
    <<"c","l","e","a","n"," ","a","i","r">>,
    <<"u","l","e","z">>,
    <<"l","e","v","e","l","l","i","n","g"," ","u","p">>,
    <<"p","o","l","i","c","e"," ","c","o","m","m","i","s","s","i","o","n","e","r">>,
    <<"p","c","c">>,
    <<"c","r","i","m","e">>,
    <<"j","u","s","t","i","c","e">>
  >>

EXCLUDE ==
  <<
    <<"s","t","r","i","c","t","l","y"," ","c","o","m","e"," ","d","a","n","c","i","n","g">>,
    <<"s","t","r","i","c","t","l","y">>,
    <<"l","o","v","e"," ","i","s","l","a","n","d">>,
    <<"b","i","g"," ","b","r","o","t","h","e","r">>,
    <<"x"," ","f","a","c","t","o","r">>,
    <<"b","r","i","t","a","i","n","'","s"," ","g","o","t"," ","t","a","l","e","n","t">>,
    <<"p","r","e","m","i","e","r"," ","l","e","a","g","u","e">>,
    <<"c","h","a","m","p","i","o","n","s"," ","l","e","a","g","u","e">>,
    <<"t","r","a","n","s","f","e","r">>,
    <<"f","i","x","t","u","r","e">>,
    <<"l","i","n","e","-","u","p">>,
    <<"l","i","n","e","u","p">>,
    <<"g","o","a","l">>,
    <<"m","a","t","c","h"," ","r","e","p","o","r","t">>,
    <<"c","e","l","e","b","r","i","t","y">>,
    <<"g","o","s","s","i","p">>,
    <<"r","o","y","a","l"," ","f","a","m","i","l","y">>,
    <<"s","o","a","p">>,
    <<"c","o","r","o","n","a","t","i","o","n"," ","s","t","r","e","e","t">>,
    <<"e","a","s","t","e","n","d","e","r","s">>,
    <<"e","m","m","e","r","d","a","l","e">>,
    <<"l","o","t","t","o">>,
    <<"l","o","t","t","e","r","y">>,
    <<"h","o","r","o","s","c","o","p","e">>,
    <<"w","e","a","t","h","e","r"," ","w","a","r","n","i","n","g">>
  >>

\* INCLUDE's .map(s => new RegExp(`\\b${s}\\b`, "i")), applied to a text
IncludeTest(s, t) == TestWholeWord(s, t)

\* ExcludeTest without the "i" flag: letters are compared as they are
ExcludeTestCaseSensitive(s, t) ==
  \E i \in 1..(Len(t) + 1) :
    /\ i + Len(s) - 1 <= Len(t)
    /\ \A k \in 1..Len(s) : t[i + k - 1] = s[k]

\* EXCLUDE's .map(s => new RegExp(s, "i")), applied to a text
ExcludeTest(s, t) == TestAnywhere(s, t)

\* isPolitical with the two tests in the other order: an include match wins
isPoliticalIncludeFirst(ttl, smry) ==
  LET t == ttl \o <<" ">> \o smry
  IN IF \E k \in 1..Len(INCLUDE) : IncludeTest(INCLUDE[k], t)
       THEN TRUE
       ELSE FALSE

isPolitical(ttl, smry) ==
  LET t == ttl \o <<" ">> \o smry
  IN IF \E k \in 1..Len(EXCLUDE) : ExcludeTest(EXCLUDE[k], t)
       THEN FALSE
       ELSE \E k \in 1..Len(INCLUDE) : IncludeTest(INCLUDE[k], t)

-----------------------------------------------------------------------------
(* Optional values: <<>> is null/undefined, <<x>> is the value x *)

None == <<>>
Some(x) == <<x>>

\* a pubDate string, given by what new Date makes of it: the time value ms,
\* or NaN for a string that is not a date (an Invalid Date)
DateString(ms) == Some([ nan |-> FALSE, ms |-> ms ])
BadDateString == Some([ nan |-> TRUE, ms |-> 0 ])

-----------------------------------------------------------------------------
(* normalize *)

\* s.replace(/\s+/g, " "): every run of whitespace becomes one space
RECURSIVE CollapseSpaces(_)
CollapseSpaces(s) ==
  IF s = <<>> THEN <<>>
  ELSE IF IsSpace(Head(s))
    THEN IF Len(s) > 1 /\ IsSpace(s[2])
           THEN CollapseSpaces(Tail(s))
           ELSE <<" ">> \o CollapseSpaces(Tail(s))
    ELSE <<Head(s)>> \o CollapseSpaces(Tail(s))

\* String.prototype.trim
RECURSIVE Trim(_)
Trim(s) ==
  IF s = <<>> THEN <<>>
  ELSE IF IsSpace(Head(s)) THEN Trim(Tail(s))
  ELSE IF IsSpace(s[Len(s)]) THEN Trim(SubSeq(s, 1, Len(s) - 1))
  ELSE s

\* a || b on strings and optional values: the first one that is not falsy
OrElse(a, b) == IF a # <<>> THEN a ELSE b

normalize(item, sourceTitle) ==
  [ title   |-> item.title,
    link    |-> item.link,
    pubDate |-> OrElse(item.isoDate, item.pubDate),
    source  |-> sourceTitle,
    summary |-> Trim(CollapseSpaces(OrElse(item.contentSnippet, item.content))) ]

-----------------------------------------------------------------------------
(* The source registry and the feeds the network can serve *)

\* three entries of SOURCES, with one, two and three candidate URLs
SOURCES ==
  << [ name |-> <<"B","B","C"," ","P","o","l","i","t","i","c","s">>,
       candidates |-> << "https://feeds.bbci.co.uk/news/politics/rss.xml" >> ],
     [ name |-> <<"S","k","y"," ","P","o","l","i","t","i","c","s">>,
       candidates |-> << "http://feeds.skynews.com/feeds/rss/politics.xml",
                         "https://news.sky.com/feeds/rss/politics.xml" >> ],
     [ name |-> <<"W","i","g","a","n"," ","T","o","d","a","y">>,
       candidates |-> << "https://www.wigantoday.net/rss",
                         "https://www.wigantoday.net/news/rss",
                         "https://www.wigantoday.net/politics/rss" >> ] >>

\* most entries in one served feed
MaxFeedItems == 1

\* raw feed entries: one the classifier accepts ("tax", after the summary is
\* normalised), one it rejects ("Soap" is excluded although "tax" is included)
RawEntries ==
  { [ title |-> <<"t","a","x">>, link |-> "https://example.org/1",
      isoDate |-> DateString(2), pubDate |-> DateString(2),
      contentSnippet |-> <<" ","r","i","s","e","\n"," ">>, content |-> <<>> ],
    [ title |-> <<"S","o","a","p">>, link |-> "https://example.org/2",
      isoDate |-> None, pubDate |-> DateString(1),
      contentSnippet |-> <<>>, content |-> <<"t","a","x">> ] }

\* feed.title as served: absent, or a title of the feed's own
FeedTitles == { <<>>, <<"F","e","e","d">> }

SeqsUpTo(S, n) == UNION { [1..k -> S] : k \in 0..n }

EmptyFeed == [ title |-> <<>>, items |-> <<>> ]

\* what parser.parseURL can resolve with
Feeds ==
  { [ title |-> t, items |-> its ] :
      t \in FeedTitles, its \in SeqsUpTo(RawEntries, MaxFeedItems) \ {<<>>} }
  \cup { EmptyFeed }

\* news.json as the previous run left it
PrevNews ==
  [ updatedAt |-> "earlier",
    items |-> << [ title |-> <<"o","l","d">>, link |-> "https://example.org/0",
                   pubDate |-> DateString(1), source |-> <<"F","e","e","d">>,
                   summary |-> <<"t","a","x">> ] >> ]

\* news.json after a write that failed part-way
PartialNews == [ updatedAt |-> "partial", items |-> <<>> ]

-----------------------------------------------------------------------------
(* parseWithFallback and the source loop of main *)

\* if (feed?.items?.length)
Accepts(feed) == Len(feed.items) > 0

\* LoopStep without the try/catch around the attempt: a rejected request ends
\* the source at once
LoopStepThrowsOnReject(s, c, ok, feed) ==
  IF ~ok THEN "throw"
  ELSE IF Accepts(feed) THEN "return"
  ELSE IF c < Len(SOURCES[s].candidates) THEN "continue"
  ELSE "throw"

\* LoopStep without the early return: every candidate is tried and the last
\* one decides
LoopStepNoEarlyReturn(s, c, ok, feed) ==
  IF c < Len(SOURCES[s].candidates) THEN "continue"
  ELSE IF ok /\ Accepts(feed) THEN "return"
  ELSE "throw"

\* LoopStep with one retry after the last candidate has failed
LoopStepOneMore(s, c, ok, feed) ==
  IF ok /\ Accepts(feed) THEN "return"
  ELSE IF c <= Len(SOURCES[s].candidates) THEN "continue"
  ELSE "throw"

\* what one iteration of the candidate loop leads to: the function returns
\* the feed, goes on to the next candidate, or leaves the loop and throws
LoopStep(s, c, ok, feed) ==
  IF ok /\ Accepts(feed) THEN "return"
  ELSE IF c < Len(SOURCES[s].candidates) THEN "continue"
  ELSE "throw"

\* AfterSource without the try/catch of the loop body: a throw ends main
AfterSourceAborts(s, step) ==
  IF step = "throw" THEN "exit1"
  ELSE IF s < Len(SOURCES) THEN "delay" ELSE "write"

\* where main goes when parseWithFallback has returned or thrown for source s:
\* the try/catch of the loop body logs a throw and the loop goes on
AfterSource(s, step) == IF s < Len(SOURCES) THEN "delay" ELSE "write"

\* CollectItems without the isPolitical test: every entry is pushed
CollectItemsUnfiltered(feed, s) ==
  LET sourceTitle == OrElse(feed.title, SOURCES[s].name)
  IN [ i \in 1..Len(feed.items) |-> normalize(feed.items[i], sourceTitle) ]

\* the items main pushes for an accepted feed of source s
CollectItems(feed, s) ==
  LET sourceTitle == OrElse(feed.title, SOURCES[s].name)
      its == [ i \in 1..Len(feed.items) |-> normalize(feed.items[i], sourceTitle) ]
  IN SelectSeq(its, LAMBDA it : isPolitical(it.title, it.summary))

\* CollectItems, tabulated for the feeds and sources of the model
CollectTable ==
  [ feed \in Feeds, s \in 1..Len(SOURCES) |-> CollectItems(feed, s) ]

Collect(feed, s) == CollectTable[feed, s]

\* await delay(100)
Delay ==
  /\ pc = "delay"
  /\ pc' = "parse"
  /\ trace' = Append(trace, [ op |-> "delay", src |-> si, cand |-> ci,
                              ok |-> TRUE, feed |-> EmptyFeed ])
  /\ UNCHANGED <<si, ci, all, allFrom, warned, newsJson, exitCode,
                 title, summary, verdict>>
  /\ UNCHANGED analysisVars
  /\ UNCHANGED appVars

\* Attempt without the try/catch of the loop body: when parseWithFallback
\* throws, the error reaches main().catch and the process exits with 1
AttemptExitsOnThrow(ok, feed) ==
  LET step == LoopStep(si, ci, ok, feed)
      got  == IF step = "return" THEN Collect(feed, si) ELSE <<>>
  IN
  /\ trace' = Append(trace, [ op |-> "parse", src |-> si, cand |-> ci,
                              ok |-> ok, feed |-> feed ])
  /\ all' = all \o got
  /\ allFrom' = allFrom \o [ i \in 1..Len(got) |-> <<si, ci>> ]
  /\ warned' = warned
  /\ IF step = "continue"
       THEN /\ ci' = ci + 1
            /\ si' = si
            /\ pc' = "delay"
            /\ exitCode' = exitCode
       ELSE /\ ci' = 1
            /\ si' = si + 1
            /\ pc' = IF step = "throw" THEN "exit1" ELSE AfterSource(si, step)
            /\ exitCode' = IF step = "throw" THEN Some(1) ELSE exitCode
  /\ UNCHANGED <<newsJson, title, summary, verdict>>
  /\ UNCHANGED analysisVars
  /\ UNCHANGED appVars

\* the rest of one loop iteration, and of main's loop body when the
\* function returns or throws
Attempt(ok, feed) ==
  LET step == LoopStep(si, ci, ok, feed)
      got  == IF step = "return" THEN Collect(feed, si) ELSE <<>>
  IN
  /\ trace' = Append(trace, [ op |-> "parse", src |-> si, cand |-> ci,
                              ok |-> ok, feed |-> feed ])
  /\ all' = all \o got
  /\ allFrom' = allFrom \o [ i \in 1..Len(got) |-> <<si, ci>> ]
  /\ warned' = IF step = "throw" THEN warned \cup {si} ELSE warned
  /\ IF step = "continue"
       THEN /\ ci' = ci + 1
            /\ si' = si
            /\ pc' = "delay"
       ELSE /\ ci' = 1
            /\ si' = si + 1
            /\ pc' = AfterSource(si, step)
  /\ UNCHANGED <<newsJson, exitCode, title, summary, verdict>>
  /\ UNCHANGED analysisVars
  /\ UNCHANGED appVars

\* await parser.parseURL(url) rejects: network error, timeout, unparseable body
ParseRejects ==
  /\ pc = "parse"
  /\ Attempt(FALSE, EmptyFeed)

\* await parser.parseURL(url) resolves with a feed
ParseResolves ==
  /\ pc = "parse"
  /\ \E feed \in Feeds : Attempt(TRUE, feed)

-----------------------------------------------------------------------------
(* De-duplication, ranking and the write *)

\* the cap of .slice(0, 200), scaled to the size of the model
MaxItems == 2

\* new Date(pubDate || 0): the time value, in milliseconds since the epoch, or NaN
TimeValue(pubDate) == IF pubDate = None THEN [ nan |-> FALSE, ms |-> 0 ] ELSE pubDate[1]

\* `${it.source}__${it.title}`.toLowerCase()
KeyOf(it) == ToLower(it.source \o <<"_","_">> \o it.title)

\* new Date(it.pubDate || 0) > new Date(prev.pubDate || 0); a comparison with
\* NaN is false
Newer(it, prev) ==
  LET a == TimeValue(it.pubDate)
      b == TimeValue(prev.pubDate)
  IN ~a.nan /\ ~b.nan /\ a.ms > b.ms

\* one iteration of the loop over `all`; the Map is the sequence of its
\* [key, value] entries in insertion order
DedupStep(map, it) ==
  LET key == KeyOf(it)
      at  == { i \in 1..Len(map) : map[i].key = key }
  IN IF at = {}
       THEN Append(map, [ key |-> key, value |-> it ])
       ELSE LET i == CHOOSE j \in at : TRUE
            IN IF Newer(it, map[i].value)
                 THEN [ map EXCEPT ![i].value = it ]
                 ELSE map

RECURSIVE DedupFrom(_, _)
DedupFrom(map, rest) ==
  IF rest = <<>> THEN map ELSE DedupFrom(DedupStep(map, Head(rest)), Tail(rest))

\* Array.from(map.values()) after the loop
Dedup(its) ==
  LET map == DedupFrom(<<>>, its) IN [ i \in 1..Len(map) |-> map[i].value ]

\* the comparator (a, b) => new Date(b.pubDate || 0) - new Date(a.pubDate || 0),
\* as sort reads it: a NaN result counts as +0
Compare(a, b) ==
  LET x == TimeValue(a.pubDate)
      y == TimeValue(b.pubDate)
  IN IF x.nan \/ y.nan THEN 0 ELSE y.ms - x.ms

\* Compare is a consistent comparator for the elements of its: it orders them
\* into classes. An Invalid Date compares equal to everything, so it is
\* consistent only if all the other time values are equal.
Consistent(its) ==
  \/ \A i \in 1..Len(its) : ~TimeValue(its[i].pubDate).nan
  \/ \A i, j \in 1..Len(its) :
       \/ TimeValue(its[i].pubDate).nan
       \/ TimeValue(its[j].pubDate).nan
       \/ TimeValue(its[i].pubDate).ms = TimeValue(its[j].pubDate).ms

\* Array.prototype.sort is stable: x goes after every element it does not
\* have to precede
RECURSIVE InsertSorted(_, _)
InsertSorted(sorted, x) ==
  IF sorted = <<>> THEN <<x>>
  ELSE IF Compare(x, Head(sorted)) < 0
    THEN <<x>> \o sorted
    ELSE <<Head(sorted)>> \o InsertSorted(Tail(sorted), x)

RECURSIVE SortFrom(_, _)
SortFrom(sorted, rest) ==
  IF rest = <<>> THEN sorted ELSE SortFrom(InsertSorted(sorted, Head(rest)), Tail(rest))

\* the arrangements of its
Arrangements(its) ==
  { [ i \in 1..Len(its) |-> its[p[i]] ] :
      p \in { q \in [1..Len(its) -> 1..Len(its)] :
                \A i, j \in 1..Len(its) : q[i] = q[j] => i = j } }

\* what .sort(comparator) can leave: the stable sort, or, the comparator not
\* being consistent, an order the engine is free to choose
Sort(its) ==
  IF Consistent(its) THEN { SortFrom(<<>>, its) } ELSE Arrangements(its)

\* .slice(0, 200)
Slice(its) == SubSeq(its, 1, IF Len(its) < MaxItems THEN Len(its) ELSE MaxItems)

\* the arrays main can write as items
Rank(its) == { Slice(sorted) : sorted \in Sort(Dedup(its)) }

\* dedup, sort, slice and a writeFile that succeeds
WriteNews ==
  /\ pc = "write"
  /\ \E items \in Rank(all) : newsJson' = [ updatedAt |-> "now", items |-> items ]
  /\ pc' = "done"
  /\ exitCode' = Some(0)
  /\ UNCHANGED <<si, ci, trace, all, allFrom, warned, title, summary, verdict>>
  /\ UNCHANGED analysisVars
  /\ UNCHANGED appVars

\* dedup, sort, slice and a writeFile that rejects: main().catch exits with 1.
\* The file is as it was, or holds part of the new content.
WriteFails ==
  /\ pc = "write"
  /\ newsJson' \in { newsJson, PartialNews }
  /\ pc' = "exit1"
  /\ exitCode' = Some(1)
  /\ UNCHANGED <<si, ci, trace, all, allFrom, warned, title, summary, verdict>>
  /\ UNCHANGED analysisVars
  /\ UNCHANGED appVars

-----------------------------------------------------------------------------
(* The ingestion run *)

Init ==
  /\ pc = "delay"
  /\ si = 1
  /\ ci = 1
  /\ trace = <<>>
  /\ all = <<>>
  /\ allFrom = <<>>
  /\ warned = {}
  /\ newsJson = PrevNews
  /\ exitCode = None
  /\ title = <<>>
  /\ summary = <<>>
  /\ verdict = None
  /\ AnalysisIdle
  /\ AppIdle

Next == Delay \/ ParseRejects \/ ParseResolves \/ WriteNews \/ WriteFails

Spec == Init /\ [][Next]_vars

\* the ingestion run with the scheduling of its source loop: every await of
\* the loop settles (the delay timer fires, and parseURL resolves or rejects
\* within the timeout of the parser)
SpecLive ==
  /\ Init
  /\ [][Next]_vars
  /\ WF_vars(Delay)
  /\ WF_vars(ParseRejects \/ ParseResolves)

-----------------------------------------------------------------------------
(* The classifier on its own: isPolitical applied to bounded texts *)

\* most fragments in a title, and in a summary
MaxTitleParts == 3
MaxSummaryParts == 1

\* fragments texts are built from: an include term, an exclude term with a
\* capital, an upper-case include term, a separator and a word suffix
Fragments ==
  { <<"t","a","x">>, <<"S","o","a","p">>, <<"M","P">>, <<" ">>, <<"y">> }

RECURSIVE Flatten(_)
Flatten(parts) == IF parts = <<>> THEN <<>> ELSE Head(parts) \o Flatten(Tail(parts))

TextsUpTo(n) == { Flatten(parts) : parts \in SeqsUpTo(Fragments, n) }

CouncilTransferText ==
  <<"C","o","u","n","c","i","l"," ","a","n","n","o","u","n","c","e","s"," ","n","e","w"," ","t","r","a","n","s","f","e","r"," ","w","i","n","d","o","w"," ","f","o","r"," ","h","o","u","s","i","n","g">>

StrictlyText ==
  <<"M","P"," ","s","l","a","m","s"," ","S","t","r","i","c","t","l","y"," ","C","o","m","e"," ","D","a","n","c","i","n","g"," ","o","v","e","r"," ","f","u","n","d","i","n","g"," ","r","o","w">>

Titles == TextsUpTo(MaxTitleParts) \cup { CouncilTransferText, StrictlyText }

Summaries == TextsUpTo(MaxSummaryParts)

InitClassify ==
  /\ pc = "idle"
  /\ si = 1
  /\ ci = 1
  /\ trace = <<>>
  /\ all = <<>>
  /\ allFrom = <<>>
  /\ warned = {}
  /\ newsJson = PrevNews
  /\ exitCode = None
  /\ title \in Titles
  /\ summary \in Summaries
  /\ verdict = None
  /\ AnalysisIdle
  /\ AppIdle

\* the call isPolitical(title, summary)
Classify ==
  /\ verdict = None
  /\ pc = "idle"
  /\ verdict' = Some(isPolitical(title, summary))
  /\ UNCHANGED <<pc, si, ci, trace, all, allFrom, warned, newsJson, exitCode,
                 title, summary>>
  /\ UNCHANGED analysisVars
  /\ UNCHANGED appVars

NextClassify == Classify

SpecClassify == InitClassify /\ [][NextClassify]_vars

-----------------------------------------------------------------------------
(* De-duplication and ranking on their own: main from the end of the      *)
(* source loop, for bounded contents of `all`                              *)

\* most items in `all`
MaxAll == 3

\* feed titles and item titles whose keys coincide although the pairs differ,
\* and ones that differ in letter case only
RankSources == { <<"a">>, <<"A">>, <<"a","_","_","b">> }
RankTitles == { <<"c">>, <<"b","_","_","c">> }

\* publication times: absent, before the epoch, after the epoch, not a date
RankDates == { None, DateString(-1), DateString(1), BadDateString }

RankItems ==
  { [ title |-> t, link |-> "", pubDate |-> d, source |-> s, summary |-> <<"t","a","x">> ] :
      t \in RankTitles, d \in RankDates, s \in RankSources }

InitRank ==
  /\ pc = "write"
  /\ si = Len(SOURCES) + 1
  /\ ci = 1
  /\ trace = <<>>
  /\ all \in SeqsUpTo(RankItems, MaxAll)
  /\ allFrom = <<>>
  /\ warned = {}
  /\ newsJson = PrevNews
  /\ exitCode = None
  /\ title = <<>>
  /\ summary = <<>>
  /\ verdict = None
  /\ AnalysisIdle
  /\ AppIdle

NextRank == WriteNews \/ WriteFails

SpecRank == InitRank /\ [][NextRank]_vars

-----------------------------------------------------------------------------
(* Properties of the candidate fallback and of the source loop *)

\* the parseURL calls made so far, in order
ParseEvents == SelectSeq(trace, LAMBDA e : e.op = "parse")

\* the candidate responded without error and yielded at least one entry
Succeeded(e) == e.ok /\ Len(e.feed.items) > 0

\* the items of `all` that came from source s, in order
ItemsFrom(s) ==
  LET idx == SelectSeq([ i \in 1..Len(all) |-> i ], LAMBDA i : allFrom[i][1] = s)
  IN [ k \in 1..Len(idx) |-> all[idx[k]] ]

\* source s is behind main's loop
Finished(s) == si > s

\* every candidate of source s was attempted and none succeeded
AllCandidatesFailed(s) ==
  \A c \in 1..Len(SOURCES[s].candidates) :
    \E j \in 1..Len(ParseEvents) :
      /\ ParseEvents[j].src = s
      /\ ParseEvents[j].cand = c
      /\ ~Succeeded(ParseEvents[j])

\* C1: for every source the candidates are attempted strictly in listed
\* order, each after the failure of the one before; the first candidate that
\* responds without error and yields at least one entry ends the attempts for
\* that source, no candidate listed after it is attempted, and the feed it
\* served is the one whose entries main receives.
C1_FallbackOrder ==
  LET ev == ParseEvents IN
  /\ \A j \in 1..Len(ev) :
       LET e == ev[j] IN
       \* candidate c is attempted only after 1..c-1, in that order, all failed
       /\ e.cand \in 1..Len(SOURCES[e.src].candidates)
       /\ e.cand > 1 => /\ j > 1
                        /\ ev[j - 1].src = e.src
                        /\ ev[j - 1].cand = e.cand - 1
                        /\ ~Succeeded(ev[j - 1])
       /\ e.cand = 1 /\ j > 1 => ev[j - 1].src < e.src
       \* a success is the last attempt for its source, and its feed is returned
       /\ Succeeded(e) =>
            /\ \A k \in (j + 1)..Len(ev) : ev[k].src # e.src
            /\ ItemsFrom(e.src) = Collect(e.feed, e.src)
            /\ \A i \in 1..Len(all) : allFrom[i][1] = e.src => allFrom[i][2] = e.cand
  \* a source is left only after a success or after its last candidate
  /\ \A s \in 1..Len(SOURCES) :
       Finished(s) =>
         \E j \in 1..Len(ev) :
           /\ ev[j].src = s
           /\ Succeeded(ev[j]) \/ ev[j].cand = Len(SOURCES[s].candidates)

\* C1 witness: the three-candidate source had its first candidate fail and
\* its second accepted; the third was never attempted and the run went on.
C1_Witness ==
  /\ pc = "write"
  /\ \E j \in 1..Len(ParseEvents) :
       /\ ParseEvents[j].src = 3
       /\ ParseEvents[j].cand = 2
       /\ Succeeded(ParseEvents[j])
  /\ ItemsFrom(3) # <<>>

\* C2: for every source whose candidate 1 failed (error or zero entries) and
\* whose candidate 2 succeeded, the entries processed for that source are
\* exactly those of the feed candidate 2 served; nothing from another
\* candidate is among them.
C2_SecondCandidateOnly ==
  \A j, k \in 1..Len(ParseEvents) :
    LET e1 == ParseEvents[j]
        e2 == ParseEvents[k]
    IN ( /\ e1.src = e2.src
         /\ e1.cand = 1 /\ ~Succeeded(e1)
         /\ e2.cand = 2 /\ Succeeded(e2)
         /\ Finished(e1.src) )
       => /\ ItemsFrom(e1.src) = Collect(e2.feed, e2.src)
          /\ \A i \in 1..Len(all) : allFrom[i][1] = e1.src => allFrom[i][2] = 2

\* C2 witness: candidate 1 of the two-candidate source was rejected,
\* candidate 2 served a feed with an accepted entry, and the source is done.
C2_Witness ==
  /\ Finished(2)
  /\ \E j, k \in 1..Len(ParseEvents) :
       /\ ParseEvents[j].src = 2 /\ ParseEvents[j].cand = 1 /\ ~ParseEvents[j].ok
       /\ ParseEvents[k].src = 2 /\ ParseEvents[k].cand = 2 /\ Succeeded(ParseEvents[k])
  /\ ItemsFrom(2) # <<>>

\* the sources whose accepted feed has been processed, with that feed's event
AcceptedEvent(s) ==
  { j \in 1..Len(ParseEvents) : ParseEvents[j].src = s /\ Succeeded(ParseEvents[j]) }

\* C3: a source all of whose candidates failed contributes no items and is
\* logged, and the run is not aborted: the loop goes on to the sources listed
\* after it, the items collected from every accepted feed are still in `all`,
\* the write step is reached with every source attempted, a successful write
\* stores the ranked items, and only a failed write makes the run exit with 1.
C3_FailedSourceSkipped ==
  /\ \A s \in 1..Len(SOURCES) :
       AllCandidatesFailed(s) =>
         /\ Finished(s)
         /\ ItemsFrom(s) = <<>>
         /\ s \in warned
         /\ s < Len(SOURCES) /\ si = s + 1 => pc \in {"delay", "parse"}
         /\ \A r \in 1..Len(SOURCES) :
              \A j \in AcceptedEvent(r) : ItemsFrom(r) = Collect(ParseEvents[j].feed, r)
  /\ pc \in {"write", "done", "exit1"} =>
       /\ si = Len(SOURCES) + 1
       /\ \A s \in 1..Len(SOURCES) :
            \E j \in 1..Len(ParseEvents) : ParseEvents[j].src = s /\ ParseEvents[j].cand = 1
  /\ pc = "done" => newsJson.items \in Rank(all) /\ exitCode = Some(0)
  /\ pc = "exit1" => exitCode = Some(1)

\* C3 witness: the run has written news.json although every candidate of the
\* second source failed; the first and the third source both contributed.
C3_Witness ==
  /\ pc = "done"
  /\ AllCandidatesFailed(2)
  /\ ItemsFrom(1) # <<>>
  /\ ItemsFrom(3) # <<>>
  /\ newsJson.items # <<>>

-----------------------------------------------------------------------------
(* Properties of the classifier *)

\* the text isPolitical tests
Haystack == title \o <<" ">> \o summary

SomeExcludeMatches == \E k \in 1..Len(EXCLUDE) : ExcludeTest(EXCLUDE[k], Haystack)
SomeIncludeMatches == \E k \in 1..Len(INCLUDE) : IncludeTest(INCLUDE[k], Haystack)

\* C4: isPolitical returns false whenever an EXCLUDE pattern matches the text
\* made of title and summary, and otherwise returns true exactly when an
\* INCLUDE pattern matches; a text matching both is classified negative.
C4_ExcludeWins ==
  verdict # None =>
    /\ SomeExcludeMatches => verdict = Some(FALSE)
    /\ ~SomeExcludeMatches => verdict = Some(SomeIncludeMatches)

\* C4 witness: a classified text that matches an include and an exclude pattern
C4_Witness ==
  /\ verdict = Some(FALSE)
  /\ SomeExcludeMatches
  /\ SomeIncludeMatches

\* C5: every pattern, in INCLUDE and in EXCLUDE alike, counts only as a
\* whole word, case-insensitively: the classification is the one obtained
\* when an exclude term inside a longer word is not a match.
C5_WholeWordBothLists ==
  verdict # None =>
    verdict = Some( /\ ~\E k \in 1..Len(EXCLUDE) : TestWholeWord(EXCLUDE[k], Haystack)
                    /\ \E k \in 1..Len(INCLUDE) : TestWholeWord(INCLUDE[k], Haystack) )

\* C6 as stated: "Council announces new transfer window for housing" is
\* classified positive and "MP slams Strictly Come Dancing over funding row"
\* negative.
C6_TransferWindowPositive ==
  verdict # None =>
    /\ title = CouncilTransferText => verdict = Some(TRUE)
    /\ title = StrictlyText => verdict = Some(FALSE)

\* C6 amended: both texts are classified negative; the first matches the
\* include patterns "council" and "housing" and the exclude pattern "transfer".
C6_BothNegative ==
  verdict # None =>
    /\ title = CouncilTransferText =>
         /\ verdict = Some(FALSE)
         /\ IncludeTest(<<"c","o","u","n","c","i","l">>, Haystack)
         /\ IncludeTest(<<"h","o","u","s","i","n","g">>, Haystack)
         /\ \E k \in 1..Len(EXCLUDE) :
              /\ EXCLUDE[k] = <<"t","r","a","n","s","f","e","r">>
              /\ TestAnywhere(EXCLUDE[k], Haystack)
    /\ title = StrictlyText => verdict = Some(FALSE)

\* C6 witness: the council text has been classified, with an empty summary
C6_Witness ==
  /\ title = CouncilTransferText
  /\ summary = <<>>
  /\ verdict = Some(FALSE)

-----------------------------------------------------------------------------
(* Properties of de-duplication and ranking *)

\* the (source, title) pair of an item, compared without regard to case
PairOf(it) == <<ToLower(it.source), ToLower(it.title)>>

\* the distinct (source, title) pairs among the accepted items
PairsOfAll == { PairOf(all[i]) : i \in 1..Len(all) }

\* the item carries a pubDate that is a date
Dated(it) == it.pubDate # None /\ ~it.pubDate[1].nan

\* a is published later than b, a missing pubDate being earlier than any date
LaterThan(a, b) ==
  /\ Dated(a)
  /\ b.pubDate = None \/ (Dated(b) /\ a.pubDate[1].ms > b.pubDate[1].ms)

\* the write succeeded and the cap removed nothing
WrittenUncut == pc = "done" /\ Len(Dedup(all)) <= MaxItems

\* C7: of the accepted items sharing one case-insensitive (source, title) key
\* exactly one is in the output and none of the group is later than it, an
\* item without pubDate being earlier than any item with one (dates before
\* 1970 included).
C7_LatestOfGroupSurvives ==
  WrittenUncut =>
    \A i \in 1..Len(all) :
      LET group == { j \in 1..Len(all) : KeyOf(all[j]) = KeyOf(all[i]) }
          kept  == { k \in 1..Len(newsJson.items) :
                       KeyOf(newsJson.items[k]) = KeyOf(all[i]) }
      IN /\ Cardinality(kept) = 1
         /\ \A k \in kept : \A j \in group : ~LaterThan(all[j], newsJson.items[k])

\* C8: two items are collapsed if and only if their sources are equal
\* ignoring case and their titles are equal ignoring case: the output holds
\* one item for each distinct (source, title) pair.
C8_PairIdentity ==
  WrittenUncut =>
    /\ Len(newsJson.items) = Cardinality(PairsOfAll)
    /\ \A p \in PairsOfAll : \E k \in 1..Len(newsJson.items) : PairOf(newsJson.items[k]) = p

\* C9: the written items are non-increasing in pubDate, and every item
\* without pubDate comes after every item with one.
C9_Descending ==
  pc = "done" =>
    \A i, j \in 1..Len(newsJson.items) :
      i < j => ~LaterThan(newsJson.items[j], newsJson.items[i])

\* the de-duplicated items the cap removed
Dropped ==
  LET d == Dedup(all)
  IN { d[i] : i \in 1..Len(d) } \ { newsJson.items[k] : k \in 1..Len(newsJson.items) }

\* C10: news.json never holds more than the maximum number of items; when
\* the de-duplicated set is larger, exactly the maximum is kept and no dropped
\* item has a pubDate later than the pubDate of a kept item.
C10_CapKeepsMostRecent ==
  /\ Len(newsJson.items) <= MaxItems
  /\ pc = "done" =>
       /\ Len(newsJson.items) = IF Len(Dedup(all)) < MaxItems THEN Len(Dedup(all)) ELSE MaxItems
       /\ \A d \in Dropped :
            \A k \in 1..Len(newsJson.items) :
              Dated(d) /\ Dated(newsJson.items[k])
                => d.pubDate[1].ms <= newsJson.items[k].pubDate[1].ms

(***************************************************************************)
(* The analysis stage (scripts/analyse-news.mjs): place tables.            *)
(* An object literal is a sequence of <<key, value>> pairs in source       *)
(* order; a key written twice keeps the value written last.                *)
(***************************************************************************)

DOMAIN_TO_PLACE ==
  <<
    <<<<"t","h","e","b","o","l","t","o","n","n","e","w","s",".","c","o",".","u","k">>,
      <<"B","o","l","t","o","n">>>>,
    <<<<"w","i","g","a","n","t","o","d","a","y",".","n","e","t">>,
      <<"W","i","g","a","n">>>>,
    <<<<"m","a","n","c","h","e","s","t","e","r","e","v","e","n","i","n","g","n","e","w","s",".","c","o",".","u","k">>,
      <<"M","a","n","c","h","e","s","t","e","r">>>>,
    <<<<"l","i","v","e","r","p","o","o","l","e","c","h","o",".","c","o",".","u","k">>,
      <<"L","i","v","e","r","p","o","o","l">>>>,
    <<<<"y","o","r","k","s","h","i","r","e","p","o","s","t",".","c","o",".","u","k">>,
      <<"Y","o","r","k","s","h","i","r","e">>>>,
    <<<<"e","d","i","n","b","u","r","g","h","n","e","w","s",".","s","c","o","t","s","m","a","n",".","c","o","m">>,
      <<"E","d","i","n","b","u","r","g","h">>>>,
    <<<<"g","l","a","s","g","o","w","t","i","m","e","s",".","c","o",".","u","k">>,
      <<"G","l","a","s","g","o","w">>>>,
    <<<<"b","i","r","m","i","n","g","h","a","m","m","a","i","l",".","c","o",".","u","k">>,
      <<"B","i","r","m","i","n","g","h","a","m">>>>,
    <<<<"b","r","i","s","t","o","l","p","o","s","t",".","c","o",".","u","k">>,
      <<"B","r","i","s","t","o","l">>>>,
    <<<<"l","e","e","d","s","-","l","i","v","e",".","c","o",".","u","k">>,
      <<"L","e","e","d","s">>>>,
    <<<<"l","a","n","c","s",".","l","i","v","e">>,
      <<"L","a","n","c","a","s","h","i","r","e">>>>,
    <<<<"n","o","t","t","i","n","g","h","a","m","p","o","s","t",".","c","o","m">>,
      <<"N","o","t","t","i","n","g","h","a","m">>>>,
    <<<<"l","e","i","c","e","s","t","e","r","m","e","r","c","u","r","y",".","c","o",".","u","k">>,
      <<"L","e","i","c","e","s","t","e","r">>>>,
    <<<<"c","a","m","b","r","i","d","g","e","-","n","e","w","s",".","c","o",".","u","k">>,
      <<"C","a","m","b","r","i","d","g","e">>>>,
    <<<<"o","x","f","o","r","d","m","a","i","l",".","c","o",".","u","k">>,
      <<"O","x","f","o","r","d">>>>,
    <<<<"k","e","n","t","o","n","l","i","n","e",".","c","o",".","u","k">>,
      <<"K","e","n","t">>>>,
    <<<<"s","o","m","e","r","s","e","t","l","i","v","e",".","c","o",".","u","k">>,
      <<"S","o","m","e","r","s","e","t">>>>,
    <<<<"d","e","v","o","n","l","i","v","e",".","c","o","m">>,
      <<"D","e","v","o","n">>>>,
    <<<<"c","o","r","n","w","a","l","l","l","i","v","e",".","c","o","m">>,
      <<"C","o","r","n","w","a","l","l">>>>,
    <<<<"n","o","r","t","h","a","m","p","t","o","n","c","h","r","o","n",".","c","o",".","u","k">>,
      <<"N","o","r","t","h","a","m","p","t","o","n">>>>,
    <<<<"e","d","i","n","b","u","r","g","h","l","i","v","e",".","c","o",".","u","k">>,
      <<"E","d","i","n","b","u","r","g","h">>>>,
    <<<<"b","i","r","m","i","n","g","h","a","m","m","a","i","l",".","c","o",".","u","k">>,
      <<"B","i","r","m","i","n","g","h","a","m">>>>,
    <<<<"e","v","e","n","i","n","g","n","e","w","s","2","4",".","c","o",".","u","k">>,
      <<"N","o","r","w","i","c","h">>>>,
    <<<<"d","e","r","b","y","t","e","l","e","g","r","a","p","h",".","c","o",".","u","k">>,
      <<"D","e","r","b","y">>>>,
    <<<<"s","t","o","k","e","s","e","n","t","i","n","e","l",".","c","o",".","u","k">>,
      <<"S","t","o","k","e","-","o","n","-","T","r","e","n","t">>>>,
    <<<<"c","o","v","e","n","t","r","y","t","e","l","e","g","r","a","p","h",".","n","e","t">>,
      <<"C","o","v","e","n","t","r","y">>>>,
    <<<<"b","e","l","f","a","s","t","t","e","l","e","g","r","a","p","h",".","c","o",".","u","k">>,
      <<"B","e","l","f","a","s","t">>>>,
    <<<<"w","a","l","e","s","o","n","l","i","n","e",".","c","o",".","u","k">>,
      <<"W","a","l","e","s">>>>,
    <<<<"p","r","e","s","s","a","n","d","j","o","u","r","n","a","l",".","c","o",".","u","k">>,
      <<"A","b","e","r","d","e","e","n">>>>
  >>

SOURCE_TO_PLACE ==
  <<
    <<<<"T","h","e"," ","B","o","l","t","o","n"," ","N","e","w","s">>,
      <<"B","o","l","t","o","n">>>>,
    <<<<"W","i","g","a","n"," ","T","o","d","a","y">>,
      <<"W","i","g","a","n">>>>,
    <<<<"M","a","n","c","h","e","s","t","e","r"," ","E","v","e","n","i","n","g"," ","N","e","w","s">>,
      <<"M","a","n","c","h","e","s","t","e","r">>>>,
    <<<<"L","i","v","e","r","p","o","o","l"," ","E","c","h","o">>,
      <<"L","i","v","e","r","p","o","o","l">>>>,
    <<<<"Y","o","r","k","s","h","i","r","e"," ","P","o","s","t">>,
      <<"Y","o","r","k","s","h","i","r","e">>>>,
    <<<<"E","d","i","n","b","u","r","g","h"," ","E","v","e","n","i","n","g"," ","N","e","w","s">>,
      <<"E","d","i","n","b","u","r","g","h">>>>,
    <<<<"G","l","a","s","g","o","w"," ","T","i","m","e","s">>,
      <<"G","l","a","s","g","o","w">>>>,
    <<<<"B","i","r","m","i","n","g","h","a","m"," ","M","a","i","l">>,
      <<"B","i","r","m","i","n","g","h","a","m">>>>,
    <<<<"B","r","i","s","t","o","l"," ","P","o","s","t">>,
      <<"B","r","i","s","t","o","l">>>>,
    <<<<"L","e","e","d","s"," ","L","i","v","e">>,
      <<"L","e","e","d","s">>>>,
    <<<<"L","a","n","c","s"," ","L","i","v","e">>,
      <<"L","a","n","c","a","s","h","i","r","e">>>>,
    <<<<"N","o","t","t","i","n","g","h","a","m"," ","P","o","s","t">>,
      <<"N","o","t","t","i","n","g","h","a","m">>>>,
    <<<<"L","e","i","c","e","s","t","e","r"," ","M","e","r","c","u","r","y">>,
      <<"L","e","i","c","e","s","t","e","r">>>>,
    <<<<"C","a","m","b","r","i","d","g","e"," ","N","e","w","s">>,
      <<"C","a","m","b","r","i","d","g","e">>>>,
    <<<<"O","x","f","o","r","d"," ","M","a","i","l">>,
      <<"O","x","f","o","r","d">>>>,
    <<<<"S","o","m","e","r","s","e","t"," ","L","i","v","e">>,
      <<"S","o","m","e","r","s","e","t">>>>,
    <<<<"D","e","v","o","n"," ","L","i","v","e">>,
      <<"D","e","v","o","n">>>>,
    <<<<"C","o","r","n","w","a","l","l"," ","L","i","v","e">>,
      <<"C","o","r","n","w","a","l","l">>>>,
    <<<<"N","o","r","t","h","a","m","p","t","o","n"," ","C","h","r","o","n","i","c","l","e">>,
      <<"N","o","r","t","h","a","m","p","t","o","n">>>>,
    <<<<"E","d","i","n","b","u","r","g","h"," ","L","i","v","e">>,
      <<"E","d","i","n","b","u","r","g","h">>>>,
    <<<<"C","o","v","e","n","t","r","y"," ","T","e","l","e","g","r","a","p","h">>,
      <<"C","o","v","e","n","t","r","y">>>>,
    <<<<"W","a","l","e","s","O","n","l","i","n","e">>,
      <<"W","a","l","e","s">>>>,
    <<<<"P","r","e","s","s"," ","a","n","d"," ","J","o","u","r","n","a","l">>,
      <<"A","b","e","r","d","e","e","n">>>>
  >>

PLACES ==
  <<
    <<"B","o","l","t","o","n">>,
    <<"W","i","g","a","n">>,
    <<"M","a","n","c","h","e","s","t","e","r">>,
    <<"S","a","l","f","o","r","d">>,
    <<"B","u","r","y">>,
    <<"R","o","c","h","d","a","l","e">>,
    <<"O","l","d","h","a","m">>,
    <<"T","a","m","e","s","i","d","e">>,
    <<"S","t","o","c","k","p","o","r","t">>,
    <<"T","r","a","f","f","o","r","d">>,
    <<"L","i","v","e","r","p","o","o","l">>,
    <<"S","e","f","t","o","n">>,
    <<"W","i","r","r","a","l">>,
    <<"K","n","o","w","s","l","e","y">>,
    <<"S","t"," ","H","e","l","e","n","s">>,
    <<"H","a","l","t","o","n">>,
    <<"L","e","e","d","s">>,
    <<"B","r","a","d","f","o","r","d">>,
    <<"K","i","r","k","l","e","e","s">>,
    <<"C","a","l","d","e","r","d","a","l","e">>,
    <<"W","a","k","e","f","i","e","l","d">>,
    <<"B","i","r","m","i","n","g","h","a","m">>,
    <<"S","o","l","i","h","u","l","l">>,
    <<"S","a","n","d","w","e","l","l">>,
    <<"W","a","l","s","a","l","l">>,
    <<"D","u","d","l","e","y">>,
    <<"W","o","l","v","e","r","h","a","m","p","t","o","n">>,
    <<"B","r","i","s","t","o","l">>,
    <<"B","a","t","h">>,
    <<"S","o","m","e","r","s","e","t">>,
    <<"G","l","o","u","c","e","s","t","e","r","s","h","i","r","e">>,
    <<"S","h","e","f","f","i","e","l","d">>,
    <<"R","o","t","h","e","r","h","a","m">>,
    <<"B","a","r","n","s","l","e","y">>,
    <<"D","o","n","c","a","s","t","e","r">>,
    <<"N","o","t","t","i","n","g","h","a","m">>,
    <<"L","e","i","c","e","s","t","e","r">>,
    <<"C","a","m","b","r","i","d","g","e">>,
    <<"O","x","f","o","r","d">>,
    <<"C","o","v","e","n","t","r","y">>,
    <<"D","e","r","b","y">>,
    <<"S","t","o","k","e","-","o","n","-","T","r","e","n","t">>,
    <<"N","o","r","t","h","a","m","p","t","o","n">>,
    <<"N","e","w","c","a","s","t","l","e">>,
    <<"G","a","t","e","s","h","e","a","d">>,
    <<"S","u","n","d","e","r","l","a","n","d">>,
    <<"N","o","r","t","h"," ","T","y","n","e","s","i","d","e">>,
    <<"S","o","u","t","h"," ","T","y","n","e","s","i","d","e">>,
    <<"L","a","n","c","a","s","h","i","r","e">>,
    <<"Y","o","r","k","s","h","i","r","e">>,
    <<"N","o","r","w","i","c","h">>,
    <<"L","o","n","d","o","n">>,
    <<"W","e","s","t","m","i","n","s","t","e","r">>,
    <<"C","a","m","d","e","n">>,
    <<"I","s","l","i","n","g","t","o","n">>,
    <<"H","a","c","k","n","e","y">>,
    <<"T","o","w","e","r"," ","H","a","m","l","e","t","s">>,
    <<"N","e","w","h","a","m">>,
    <<"B","a","r","k","i","n","g">>,
    <<"D","a","g","e","n","h","a","m">>,
    <<"C","r","o","y","d","o","n">>,
    <<"L","a","m","b","e","t","h">>,
    <<"S","o","u","t","h","w","a","r","k">>,
    <<"L","e","w","i","s","h","a","m">>,
    <<"G","r","e","e","n","w","i","c","h">>,
    <<"H","a","r","i","n","g","e","y">>,
    <<"E","n","f","i","e","l","d">>,
    <<"E","a","l","i","n","g">>,
    <<"H","o","u","n","s","l","o","w">>,
    <<"E","d","i","n","b","u","r","g","h">>,
    <<"G","l","a","s","g","o","w">>,
    <<"A","b","e","r","d","e","e","n">>,
    <<"D","u","n","d","e","e">>,
    <<"C","a","r","d","i","f","f">>,
    <<"S","w","a","n","s","e","a">>,
    <<"N","e","w","p","o","r","t">>,
    <<"W","r","e","x","h","a","m">>,
    <<"F","l","i","n","t","s","h","i","r","e">>,
    <<"W","a","l","e","s">>,
    <<"B","e","l","f","a","s","t">>,
    <<"D","e","r","r","y">>,
    <<"L","i","s","b","u","r","n">>,
    <<"N","e","w","r","y">>,
    <<"N","o","r","t","h","e","r","n"," ","I","r","e","l","a","n","d">>
  >>

\* new Set([...]): membership only.
STOP ==
  <<
    <<"t","h","e">>,
    <<"a">>,
    <<"a","n">>,
    <<"a","n","d">>,
    <<"o","r">>,
    <<"o","f">>,
    <<"t","o">>,
    <<"f","o","r">>,
    <<"i","n">>,
    <<"o","n">>,
    <<"a","t">>,
    <<"b","y">>,
    <<"f","r","o","m">>,
    <<"w","i","t","h">>,
    <<"a","b","o","u","t">>,
    <<"a","f","t","e","r">>,
    <<"o","v","e","r">>,
    <<"i","n","t","o">>,
    <<"u","k">>,
    <<"b","r","i","t","a","i","n">>,
    <<"b","r","i","t","i","s","h">>,
    <<"e","n","g","l","a","n","d">>,
    <<"s","c","o","t","l","a","n","d">>,
    <<"w","a","l","e","s">>,
    <<"n","o","r","t","h","e","r","n">>,
    <<"i","r","e","l","a","n","d">>,
    <<"t","o","d","a","y">>,
    <<"n","e","w">>,
    <<"p","l","a","n">>,
    <<"p","l","a","n","s">>,
    <<"s","a","y","s">>,
    <<"a","m","i","d">>,
    <<"a","s">>,
    <<"v","s">>,
    <<"p","m">>,
    <<"m","p">>,
    <<"m","p","s">>,
    <<"c","o","u","n","c","i","l">>,
    <<"c","o","u","n","c","i","l","s">>
  >>

-----------------------------------------------------------------------------
(* Tokens and phrases *)

StopWords == { STOP[n] : n \in 1..Len(STOP) }

\* /https?:\/\/\S+/ matches at index i of t
UrlAt(t, i) ==
  \/ /\ MatchAt(<<"h","t","t","p",":","/","/">>, t, i)
     /\ i + 7 <= Len(t)
     /\ ~IsSpace(t[i + 7])
  \/ /\ MatchAt(<<"h","t","t","p","s",":","/","/">>, t, i)
     /\ i + 8 <= Len(t)
     /\ ~IsSpace(t[i + 8])

\* the index of the first whitespace character of t from index i on, or Len(t)+1
RECURSIVE NextSpace(_, _)
NextSpace(t, i) ==
  IF i > Len(t) \/ IsSpace(t[i]) THEN i ELSE NextSpace(t, i + 1)

\* .replace(/https?:\/\/\S+/g, " "), from index i on
RECURSIVE StripUrlsFrom(_, _)
StripUrlsFrom(t, i) ==
  IF i > Len(t) THEN <<>>
  ELSE IF UrlAt(t, i) THEN <<" ">> \o StripUrlsFrom(t, NextSpace(t, i))
  ELSE <<t[i]>> \o StripUrlsFrom(t, i + 1)

\* .replace(/[^a-z0-9\s\-]/g, " "), one character
KeepChar(c) ==
  IF c \in { LowerCase[n] : n \in 1..26 } \cup Digits \cup {"-"} \/ IsSpace(c)
    THEN c ELSE " "

\* .split(/\s+/).filter(Boolean), from index i on; cur is the piece being read
RECURSIVE SplitFrom(_, _, _)
SplitFrom(t, i, cur) ==
  LET piece == IF cur = <<>> THEN <<>> ELSE <<cur>>
  IN IF i > Len(t) THEN piece
     ELSE IF IsSpace(t[i]) THEN piece \o SplitFrom(t, i + 1, <<>>)
     ELSE SplitFrom(t, i + 1, Append(cur, t[i]))

tokens(s) ==
  LET lower == ToLower(s)
      nourl == StripUrlsFrom(lower, 1)
      clean == [ n \in 1..Len(nourl) |-> KeepChar(nourl[n]) ]
  IN SplitFrom(clean, 1, <<>>)

\* /^\d+$/.test(w)
AllDigits(w) == Len(w) > 0 /\ \A n \in 1..Len(w) : w[n] \in Digits

\* isContent without the stop-word test
isContentNoStop(w) == Len(w) > 2 /\ ~AllDigits(w)

isContent(w) == Len(w) > 2 /\ w \notin StopWords /\ ~AllDigits(w)

\* m.set(k, (m.get(k)||0) + v) on a Map kept as the sequence of its
\* <<key, count>> entries in insertion order
Bump(m, k, v) ==
  IF \E n \in 1..Len(m) : m[n][1] = k
    THEN [ n \in 1..Len(m) |-> IF m[n][1] = k THEN <<k, m[n][2] + v>> ELSE m[n] ]
    ELSE Append(m, <<k, v>>)

\* for (const [k,v] of add) m.set(k, (m.get(k)||0) + v)
RECURSIVE Merge(_, _)
Merge(m, add) ==
  IF add = <<>> THEN m
  ELSE Merge(Bump(m, Head(add)[1], Head(add)[2]), Tail(add))

\* the bigram keys `${t[i]} ${t[i+1]}` of the loop over i < t.length-1
BigramKeys(t) == [ n \in 1..(Len(t) - 1) |-> t[n] \o <<" ">> \o t[n + 1] ]

\* phrases that pairs the tokens before the filter and keeps the pairs of
\* two content words
phrasesUnfilteredPairs(ttl, smry) ==
  LET raw  == tokens(ttl \o <<" ">> \o smry)
      t    == SelectSeq(raw, isContent)
      prs  == SelectSeq([ n \in 1..(Len(raw) - 1) |-> <<raw[n], raw[n + 1]>> ],
                        LAMBDA pr : isContent(pr[1]) /\ isContent(pr[2]))
  IN [ uni |-> Merge(<<>>, [ n \in 1..Len(t) |-> <<t[n], 1>> ]),
       bi  |-> Merge(<<>>, [ n \in 1..Len(prs) |-> <<prs[n][1] \o <<" ">> \o prs[n][2], 1>> ]) ]

phrases(ttl, smry) ==
  LET t  == SelectSeq(tokens(ttl \o <<" ">> \o smry), isContent)
      bk == BigramKeys(t)
  IN [ uni |-> Merge(<<>>, [ n \in 1..Len(t) |-> <<t[n], 1>> ]),
       bi  |-> Merge(<<>>, [ n \in 1..Len(bk) |-> <<bk[n], 1>> ]) ]

-----------------------------------------------------------------------------
(* Place inference *)

\* placeFromText without the word boundaries
placeFromTextAnywhere(s) == SelectSeq(PLACES, LAMBDA p : TestAnywhere(p, s))

\* PLACES.filter(p => new RegExp(`\\b${p}\\b`, "i").test(s))
placeFromText(s) == SelectSeq(PLACES, LAMBDA p : TestWholeWord(p, s))

\* obj[key] for a key of the object literal: <<>> when there is none
Lookup(obj, key) ==
  LET hits == SelectSeq(obj, LAMBDA kv : kv[1] = key)
  IN IF hits = <<>> THEN None ELSE Some(hits[Len(hits)][2])

\* the characters that end the host of an http(s) URL
HostEnd == { "/", "?", "#", ":" }

RECURSIVE HostFrom(_, _)
HostFrom(url, i) ==
  IF i > Len(url) \/ url[i] \in HostEnd THEN <<>>
  ELSE <<url[i]>> \o HostFrom(url, i + 1)

\* new URL(url).hostname for the links of the model, which are http(s) URLs
\* or no URLs at all: <<>> stands for the TypeError of new URL.  The parser
\* accepts the scheme in any letter case and lower-cases the host.
UrlHostname(url) ==
  LET start == IF MatchAt(<<"h","t","t","p",":","/","/">>, url, 1) THEN 8
               ELSE IF MatchAt(<<"h","t","t","p","s",":","/","/">>, url, 1) THEN 9
               ELSE 0
      host  == IF start = 0 THEN <<>> ELSE HostFrom(url, start)
  IN IF \E n \in 1..Len(host) : IsSpace(host[n]) THEN <<>> ELSE ToLower(host)

\* .replace(/^www\./, "")
StripWww(h) ==
  IF Len(h) >= 4 /\ SubSeq(h, 1, 4) = <<"w","w","w",".">>
    THEN SubSeq(h, 5, Len(h)) ELSE h

hostnameOf(url) == ToLower(StripWww(UrlHostname(url)))

\* a.add(p) for every p of ps, on a Set kept as the sequence of its elements
\* in insertion order
RECURSIVE AddAll(_, _)
AddAll(a, ps) ==
  IF ps = <<>> THEN a
  ELSE AddAll(IF \E n \in 1..Len(a) : a[n] = Head(ps) THEN a ELSE Append(a, Head(ps)),
              Tail(ps))

\* inferPlaces that stops at the first heuristic that finds a place
inferPlacesFirstMatch(i) ==
  LET text == OrElse(i.title, <<>>) \o <<" ">> \o OrElse(i.summary, <<>>)
      host == hostnameOf(OrElse(i.link, <<>>))
      src  == Trim(OrElse(i.source, <<>>))
      h1   == placeFromText(text)
      h2   == IF host # <<>> THEN Lookup(DOMAIN_TO_PLACE, host) ELSE <<>>
      h3   == IF src # <<>> THEN Lookup(SOURCE_TO_PLACE, src) ELSE <<>>
      h4   == IF src # <<>> THEN placeFromText(src) ELSE <<>>
  IN IF h1 # <<>> THEN h1
     ELSE IF h2 # <<>> THEN h2
     ELSE IF h3 # <<>> THEN h3
     ELSE h4

inferPlaces(i) ==
  LET text == OrElse(i.title, <<>>) \o <<" ">> \o OrElse(i.summary, <<>>)
      a1   == AddAll(<<>>, placeFromText(text))
      host == hostnameOf(OrElse(i.link, <<>>))
      a2   == IF host # <<>> THEN AddAll(a1, Lookup(DOMAIN_TO_PLACE, host)) ELSE a1
      src  == Trim(OrElse(i.source, <<>>))
      a3   == IF src # <<>> THEN AddAll(a2, Lookup(SOURCE_TO_PLACE, src)) ELSE a2
      a4   == IF src # <<>> THEN AddAll(a3, placeFromText(src)) ELSE a3
  IN a4

-----------------------------------------------------------------------------
(* Place inference on its own: inferPlaces applied to bounded items *)

\* most fragments in the title of an item
MaxPlaceParts == 2

\* fragments titles are built from: two place names, one of them in lower
\* case, a place name of two words, a separator and a word suffix
PlaceFragments ==
  { <<"W","i","g","a","n">>, <<"b","o","l","t","o","n">>, <<"S","t"," ","H","e","l","e","n","s">>, <<" ">>, <<"s">> }

InferTitles == { Flatten(parts) : parts \in SeqsUpTo(PlaceFragments, MaxPlaceParts) }

InferSummaries == { <<>>, <<"B","u","r","y"," ","c","o","u","n","c","i","l">> }

\* links: none, a mapped host behind www., a mapped host in capitals, a
\* subdomain of a mapped host, a host without a scheme
InferLinks ==
  { <<>>,
    <<"h","t","t","p","s",":","/","/","w","w","w",".","t","h","e","b","o","l","t","o","n","n","e","w","s",".","c","o",".","u","k","/","n","e","w","s","/","1">>,
    <<"h","t","t","p",":","/","/","W","W","W",".","W","i","g","a","n","T","o","d","a","y",".","n","e","t">>,
    <<"h","t","t","p","s",":","/","/","n","e","w","s",".","w","i","g","a","n","t","o","d","a","y",".","n","e","t","/","x","?","y">>,
    <<"w","i","g","a","n","t","o","d","a","y",".","n","e","t","/","n","e","w","s">> }

\* source names: none, a mapped name with spaces around it, a name that
\* contains a place name, a mapped name that contains its place name, a
\* name without a place
InferSources ==
  { <<>>,
    <<" ","D","e","v","o","n"," ","L","i","v","e"," ">>,
    <<"B","o","l","t","o","n"," ","C","o","u","n","c","i","l">>,
    <<"W","i","g","a","n"," ","T","o","d","a","y">>,
    <<"B","B","C"," ","P","o","l","i","t","i","c","s">> }

InferItems ==
  { [ title |-> t, summary |-> s, link |-> l, source |-> src, pubDate |-> None ] :
      t \in InferTitles, s \in InferSummaries, l \in InferLinks, src \in InferSources }

InitInfer ==
  /\ pc = "idle"
  /\ si = 1
  /\ ci = 1
  /\ trace = <<>>
  /\ all = <<>>
  /\ allFrom = <<>>
  /\ warned = {}
  /\ newsJson = PrevNews
  /\ exitCode = None
  /\ title = <<>>
  /\ summary = <<>>
  /\ verdict = None
  /\ newsReadable = "ok"
  /\ newsItems = <<>>
  /\ ii = 1
  /\ buckets = <<>>
  /\ moodJson = None
  /\ logged = None
  /\ written = <<>>
  /\ theItem \in { Some(i) : i \in InferItems }
  /\ places = None
  /\ phr = None
  /\ AppIdle

\* the call inferPlaces(it)
Infer ==
  /\ pc = "idle"
  /\ theItem # None
  /\ places = None
  /\ places' = Some(inferPlaces(theItem[1]))
  /\ UNCHANGED <<pc, newsJson, exitCode, title, summary>>
  /\ UNCHANGED ingestVars
  /\ UNCHANGED appVars
  /\ UNCHANGED <<newsReadable, newsItems, ii, buckets, moodJson, logged, written,
                 theItem, phr>>

NextInfer == Infer

SpecInfer == InitInfer /\ [][NextInfer]_vars

-----------------------------------------------------------------------------
(* Properties of place inference *)

Elems(s) == { s[n] : n \in 1..Len(s) }

NoDuplicates(s) == \A m, n \in 1..Len(s) : s[m] = s[n] => m = n

\* what each of the four heuristics finds for item i, taken on its own
TextPlaces(i) ==
  { p \in Elems(PLACES) : TestWholeWord(p, i.title \o <<" ">> \o i.summary) }

HostPlaces(i) ==
  IF hostnameOf(i.link) = <<>> THEN {}
  ELSE Elems(Lookup(DOMAIN_TO_PLACE, hostnameOf(i.link)))

SourcePlaces(i) ==
  IF Trim(i.source) = <<>> THEN {}
  ELSE Elems(Lookup(SOURCE_TO_PLACE, Trim(i.source)))

SourceTextPlaces(i) == { p \in Elems(PLACES) : TestWholeWord(p, Trim(i.source)) }

\* C11: inferPlaces returns exactly the union of what the four heuristics
\* find (places named in title and summary, the place of the link's
\* hostname, the place of the source name, places named in the source
\* string): a match of an earlier heuristic suppresses no later one, and no
\* place is returned twice.
C11_UnionOfHeuristics ==
  places # None /\ theItem # None =>
    /\ Elems(places[1]) = TextPlaces(theItem[1]) \cup HostPlaces(theItem[1])
                            \cup SourcePlaces(theItem[1]) \cup SourceTextPlaces(theItem[1])
    /\ NoDuplicates(places[1])

\* inferPlaces has returned three places, the first from the text, another
\* from the hostname alone and another from the source name alone
C11_Witness ==
  /\ places # None
  /\ theItem # None
  /\ Len(places[1]) >= 3
  /\ TextPlaces(theItem[1]) # {}
  /\ HostPlaces(theItem[1]) # {}
  /\ HostPlaces(theItem[1]) \cap TextPlaces(theItem[1]) = {}
  /\ SourcePlaces(theItem[1]) \cup SourceTextPlaces(theItem[1]) # {}
  /\ (SourcePlaces(theItem[1]) \cup SourceTextPlaces(theItem[1]))
       \cap (TextPlaces(theItem[1]) \cup HostPlaces(theItem[1])) = {}

-----------------------------------------------------------------------------
(* Buckets and areas *)

\* the n of topN(m, 10), scaled to the size of the model
TopCount == 2

\* the cap of .slice(0, 8) on examples, scaled to the size of the model
ExamplesCap == 2

\* it.link || it.title
ItemKey(i) == OrElse(i.link, i.title)

\* { items: new Map(), uni: new Map(), bi: new Map() }, with the key of the entry
EmptyBucket(place) == [ place |-> place, items |-> <<>>, uni |-> <<>>, bi |-> <<>> ]

\* PutItem without the check b.items.has(key): every item is stored
PutItemNoDedup(b, i, ph) ==
  [ b EXCEPT
      !.items = Append(@, <<ItemKey(i), [ title |-> i.title, link |-> i.link,
                                          source |-> i.source, pubDate |-> i.pubDate ]>>),
      !.uni = Merge(@, ph.uni),
      !.bi = Merge(@, ph.bi) ]

\* the body of the loop over places, for the bucket b of the place
PutItem(b, i, ph) ==
  [ b EXCEPT
      !.items = IF \E n \in 1..Len(@) : @[n][1] = ItemKey(i) THEN @
                ELSE Append(@, <<ItemKey(i), [ title |-> i.title, link |-> i.link,
                                               source |-> i.source, pubDate |-> i.pubDate ]>>),
      !.uni = Merge(@, ph.uni),
      !.bi = Merge(@, ph.bi) ]

\* for (const place of places) { ... }
RECURSIVE AddToPlaces(_, _, _, _)
AddToPlaces(bs, ps, i, ph) ==
  IF ps = <<>> THEN bs
  ELSE LET p   == Head(ps)
           bs1 == IF \E n \in 1..Len(bs) : bs[n].place = p THEN bs
                  ELSE Append(bs, EmptyBucket(p))
           bs2 == [ n \in 1..Len(bs1) |->
                      IF bs1[n].place = p THEN PutItem(bs1[n], i, ph) ELSE bs1[n] ]
       IN AddToPlaces(bs2, Tail(ps), i, ph)

\* items of news.json: a place in the title; two places in the title; a place
\* by the source name only, no link and one content word; the link of the
\* first item again; no place at all; a place by the hostname and another in
\* the title
NewsPool ==
  { [ title |-> <<"W","i","g","a","n"," ","t","a","x"," ","r","i","s","e">>,
      summary |-> <<>>,
      link |-> <<"h","t","t","p","s",":","/","/","a",".","u","k","/","1">>,
      source |-> <<"B","B","C"," ","P","o","l","i","t","i","c","s">>,
      pubDate |-> None ],
    [ title |-> <<"B","o","l","t","o","n"," ","a","n","d"," ","W","i","g","a","n"," ","b","u","s"," ","c","u","t","s">>,
      summary |-> <<>>,
      link |-> <<"h","t","t","p","s",":","/","/","a",".","u","k","/","2">>,
      source |-> <<"B","B","C"," ","P","o","l","i","t","i","c","s">>,
      pubDate |-> None ],
    [ title |-> <<"T","a","x">>,
      summary |-> <<>>,
      link |-> <<>>,
      source |-> <<"W","i","g","a","n"," ","T","o","d","a","y">>,
      pubDate |-> None ],
    [ title |-> <<"B","u","s"," ","c","u","t","s">>,
      summary |-> <<>>,
      link |-> <<"h","t","t","p","s",":","/","/","a",".","u","k","/","1">>,
      source |-> <<" ","W","i","g","a","n"," ","T","o","d","a","y">>,
      pubDate |-> None ],
    [ title |-> <<"T","a","x"," ","r","i","s","e">>,
      summary |-> <<>>,
      link |-> <<>>,
      source |-> <<>>,
      pubDate |-> None ],
    [ title |-> <<"W","i","g","a","n"," ","t","a","x","i"," ","r","a","n","k">>,
      summary |-> <<>>,
      link |-> <<"h","t","t","p","s",":","/","/","w","w","w",".","t","h","e","b","o","l","t","o","n","n","e","w","s",".","c","o",".","u","k","/","3">>,
      source |-> <<"T","h","e"," ","B","o","l","t","o","n"," ","N","e","w","s">>,
      pubDate |-> None ] }

\* inferPlaces and phrases, tabulated for the items of the model
InferTable == [ i \in NewsPool |-> inferPlaces(i) ]

PhrasesTable == [ i \in NewsPool |-> phrases(i.title, i.summary) ]

\* AddItem that puts the item in the bucket of its first place only
AddItemFirstPlace(bs, i) ==
  IF InferTable[i] = <<>> THEN bs
  ELSE AddToPlaces(bs, <<Head(InferTable[i])>>, i, PhrasesTable[i])

\* AddItem that collects the items without a place in a bucket of their own
AddItemUnplaced(bs, i) ==
  AddToPlaces(bs, IF InferTable[i] = <<>> THEN << <<>> >> ELSE InferTable[i],
              i, PhrasesTable[i])

\* one iteration of the loop over items
AddItem(bs, i) ==
  IF InferTable[i] = <<>> THEN bs
  ELSE AddToPlaces(bs, InferTable[i], i, PhrasesTable[i])

\* the order .sort((a,b) => b - a) gives to values vals: the indices of vals,
\* larger values first, equal values in their original order (the sort is
\* stable, and a comparator on finite numbers is consistent)
SortIndex(vals) ==
  [ pos \in 1..Len(vals) |->
      CHOOSE n \in 1..Len(vals) :
        pos = 1 + Cardinality({ m \in 1..Len(vals) :
                                  vals[m] > vals[n] \/ (vals[m] = vals[n] /\ m < n) }) ]

\* topN that breaks ties by the entry touched last
topNLastFirst(m, n) ==
  LET rev == [ k \in 1..Len(m) |-> m[Len(m) + 1 - k] ]
      idx == SortIndex([ k \in 1..Len(rev) |-> rev[k][2] ])
  IN [ k \in 1..(IF Len(m) < n THEN Len(m) ELSE n) |->
         [ text |-> rev[idx[k]][1], count |-> rev[idx[k]][2] ] ]

topN(m, n) ==
  LET idx == SortIndex([ k \in 1..Len(m) |-> m[k][2] ])
  IN [ k \in 1..(IF Len(m) < n THEN Len(m) ELSE n) |->
         [ text |-> m[idx[k]][1], count |-> m[idx[k]][2] ] ]

\* i.includes(w)
Includes(hay, w) ==
  \E n \in 1..(Len(hay) + 1) :
    /\ n + Len(w) - 1 <= Len(hay)
    /\ \A k \in 1..Len(w) : hay[n + k - 1] = w[k]

Texts(top) == [ k \in 1..Len(top) |-> top[k].text ]

\* AreaOf that drops from the keywords only a word equal to a whole issue
AreaOfExactMatch(b) ==
  LET issues  == Texts(topN(b.bi, TopCount))
      singles == SelectSeq(Texts(topN(b.uni, TopCount)),
                           LAMBDA w : ~\E n \in 1..Len(issues) : issues[n] = w)
  IN [ place       |-> b.place,
       sampleCount |-> Len(b.items),
       issues      |-> issues,
       keywords    |-> singles,
       examples    |-> [ k \in 1..(IF Len(b.items) < ExamplesCap THEN Len(b.items)
                                   ELSE ExamplesCap) |-> b.items[k][2] ] ]

\* the callback of .map(([place,b]) => ...)
AreaOf(b) ==
  LET issues  == Texts(topN(b.bi, TopCount))
      singles == SelectSeq(Texts(topN(b.uni, TopCount)),
                           LAMBDA w : ~\E n \in 1..Len(issues) : Includes(issues[n], w))
  IN [ place       |-> b.place,
       sampleCount |-> Len(b.items),
       issues      |-> issues,
       keywords    |-> singles,
       examples    |-> [ k \in 1..(IF Len(b.items) < ExamplesCap THEN Len(b.items)
                                   ELSE ExamplesCap) |-> b.items[k][2] ] ]

\* Areas without the final sort: buckets in insertion order
AreasUnsorted(bs) == [ n \in 1..Len(bs) |-> AreaOf(bs[n]) ]

\* Array.from(buckets.entries()).map(...).sort((a,b) => b.sampleCount - a.sampleCount)
Areas(bs) ==
  LET mapped == [ n \in 1..Len(bs) |-> AreaOf(bs[n]) ]
      idx    == SortIndex([ n \in 1..Len(mapped) |-> mapped[n].sampleCount ])
  IN [ n \in 1..Len(mapped) |-> mapped[idx[n]] ]

-----------------------------------------------------------------------------
(* The analysis run *)

\* most items in news.json
MaxNews == 3

\* most runs of the analysis on one news.json
MaxRuns == 2

\* a mood.json of an earlier analysis, of other news
StaleMood ==
  Some([ updatedAt |-> 0,
         areas |-> << [ place |-> <<"D","e","v","o","n">>, sampleCount |-> 1,
                        issues |-> <<>>, keywords |-> <<>>,
                        examples |-> << [ title |-> <<"O","l","d">>,
                                          link |-> <<>>,
                                          source |-> <<>>, pubDate |-> None ] >> ] >> ])

\* mood.json after a write that failed part-way
PartialMood == Some([ updatedAt |-> 0, areas |-> <<>> ])

InitAnalyse ==
  /\ pc = "start"
  /\ si = 1
  /\ ci = 1
  /\ trace = <<>>
  /\ all = <<>>
  /\ allFrom = <<>>
  /\ warned = {}
  /\ newsReadable \in { "ok", "noitems", "missing", "corrupt" }
  /\ newsJson \in { [ updatedAt |-> "earlier", items |-> its ] :
                      its \in IF newsReadable = "ok" THEN SeqsUpTo(NewsPool, MaxNews)
                              ELSE { <<>> } }
  /\ exitCode = None
  /\ title = <<>>
  /\ summary = <<>>
  /\ verdict = None
  /\ newsItems = <<>>
  /\ ii = 1
  /\ buckets = <<>>
  /\ moodJson \in { None, StaleMood }
  /\ logged = None
  /\ written = <<>>
  /\ theItem = None
  /\ places = None
  /\ phr = None
  /\ AppIdle

\* buckets seeded with the areas of the mood.json found on disk
StartBucketsFromMood ==
  IF moodJson = None THEN <<>>
  ELSE [ n \in 1..Len(moodJson[1].areas) |->
           [ place |-> moodJson[1].areas[n].place,
             items |-> [ k \in 1..Len(moodJson[1].areas[n].examples) |->
                           <<ItemKey(moodJson[1].areas[n].examples[k]),
                             moodJson[1].areas[n].examples[k]>> ],
             uni   |-> <<>>,
             bi    |-> <<>> ] ]

\* const buckets = new Map()
StartBuckets == <<>>

\* JSON.parse(await readFile("public/data/news.json","utf8")) returns, and
\* items is raw.items or []
ReadNews ==
  /\ pc = "start"
  /\ newsReadable \in { "ok", "noitems" }
  /\ newsItems' = IF newsReadable = "ok" THEN newsJson.items ELSE <<>>
  /\ ii' = 1
  /\ buckets' = StartBuckets
  /\ pc' = "loop"
  /\ UNCHANGED <<newsJson, exitCode, title, summary>>
  /\ UNCHANGED ingestVars
  /\ UNCHANGED appVars
  /\ UNCHANGED <<newsReadable, moodJson, logged, written, theItem, places, phr>>

\* ReadFails that logs the cause and goes on with no items
ReadFailsGoesOn ==
  /\ newsItems' = <<>>
  /\ ii' = 1
  /\ buckets' = StartBuckets
  /\ pc' = "loop"
  /\ exitCode' = exitCode

\* readFile rejects or JSON.parse throws: main().catch logs the error and
\* exits with 1
ReadFails ==
  /\ pc' = "exit1"
  /\ exitCode' = Some(1)
  /\ UNCHANGED <<newsItems, ii, buckets>>

\* the first statement of main() throws
ReadThrows ==
  /\ pc = "start"
  /\ newsReadable \in { "missing", "corrupt" }
  /\ logged' = Some(newsReadable)
  /\ ReadFails
  /\ UNCHANGED <<newsJson, title, summary>>
  /\ UNCHANGED ingestVars
  /\ UNCHANGED appVars
  /\ UNCHANGED <<newsReadable, moodJson, written, theItem, places, phr>>

\* one iteration of for (const it of items)
LoopItem ==
  /\ pc = "loop"
  /\ ii <= Len(newsItems)
  /\ theItem' = Some(newsItems[ii])
  /\ places' = Some(InferTable[newsItems[ii]])
  /\ phr' = IF InferTable[newsItems[ii]] = <<>> THEN None
            ELSE Some(PhrasesTable[newsItems[ii]])
  /\ buckets' = AddItem(buckets, newsItems[ii])
  /\ ii' = ii + 1
  /\ UNCHANGED <<pc, newsJson, exitCode, title, summary>>
  /\ UNCHANGED ingestVars
  /\ UNCHANGED appVars
  /\ UNCHANGED <<newsReadable, newsItems, moodJson, logged, written>>

\* the loop is over: areas is computed and writeFile resolves; the process
\* ends with status 0
WriteMood ==
  /\ pc = "loop"
  /\ ii > Len(newsItems)
  /\ moodJson' = Some([ updatedAt |-> Len(written) + 1, areas |-> Areas(buckets) ])
  /\ written' = Append(written, Areas(buckets))
  /\ pc' = "done"
  /\ exitCode' = Some(0)
  /\ UNCHANGED <<newsJson, title, summary>>
  /\ UNCHANGED ingestVars
  /\ UNCHANGED appVars
  /\ UNCHANGED <<newsReadable, newsItems, ii, buckets, logged, theItem, places, phr>>

\* the loop is over and writeFile rejects: main().catch logs the error and
\* exits with 1.  The file is as it was, or holds part of the new content.
WriteMoodFails ==
  /\ pc = "loop"
  /\ ii > Len(newsItems)
  /\ moodJson' \in { moodJson, PartialMood }
  /\ logged' = Some("write")
  /\ pc' = "exit1"
  /\ exitCode' = Some(1)
  /\ UNCHANGED <<newsJson, title, summary>>
  /\ UNCHANGED ingestVars
  /\ UNCHANGED appVars
  /\ UNCHANGED <<newsReadable, newsItems, ii, buckets, written, theItem, places, phr>>

\* the script is started again, on the same news.json
Rerun ==
  /\ pc = "done"
  /\ Len(written) < MaxRuns
  /\ pc' = "start"
  /\ exitCode' = None
  /\ theItem' = None
  /\ places' = None
  /\ phr' = None
  /\ UNCHANGED <<newsJson, title, summary>>
  /\ UNCHANGED ingestVars
  /\ UNCHANGED appVars
  /\ UNCHANGED <<newsReadable, newsItems, ii, buckets, moodJson, logged, written>>

NextAnalyse ==
  ReadNews \/ ReadThrows \/ LoopItem \/ WriteMood \/ WriteMoodFails \/ Rerun

SpecAnalyse == InitAnalyse /\ [][NextAnalyse]_vars

-----------------------------------------------------------------------------
(* Properties of the buckets *)

\* the places of an item of the model, by the four heuristics taken separately
PlaceSets ==
  [ i \in NewsPool |-> TextPlaces(i) \cup HostPlaces(i) \cup SourcePlaces(i)
                         \cup SourceTextPlaces(i) ]

\* the places named in the text of an item of the model
TextPlaceSets == [ i \in NewsPool |-> TextPlaces(i) ]

\* mood.json holds the result of a completed run
Analysed == pc = "done" /\ moodJson # None

\* the entry of examples made of item i
ExampleOf(i) ==
  [ title |-> i.title, link |-> i.link, source |-> i.source, pubDate |-> i.pubDate ]

\* the indices of the items of news.json mapped to place p
MappedTo(p) == { n \in 1..Len(newsItems) : p \in PlaceSets[newsItems[n]] }

\* the keys of the items mapped to p that come before item n
KeysBefore(p, n) == { ItemKey(newsItems[m]) : m \in { k \in MappedTo(p) : k < n } }

\* the areas of the written mood.json for place p
AreasFor(p) ==
  { k \in 1..Len(moodJson[1].areas) : moodJson[1].areas[k].place = p }

\* C12 as stated: an item whose text names two distinct places appears in
\* the examples of both buckets.
C12_InExamplesOfBoth ==
  Analysed =>
    \A n \in 1..Len(newsItems) :
      Cardinality(TextPlaceSets[newsItems[n]]) >= 2 =>
        \A p \in TextPlaceSets[newsItems[n]] :
          \E k \in AreasFor(p) :
            ExampleOf(newsItems[n]) \in Elems(moodJson[1].areas[k].examples)

\* C12: an item whose text names two distinct places is counted in the
\* sampleCount of both buckets (its key is one of the distinct keys counted),
\* and it appears in the examples of each of the two unless the bucket held
\* the cap of distinct items before it, or an earlier item of the bucket has
\* its key.
C12_CountedInBoth ==
  Analysed =>
    \A n \in 1..Len(newsItems) :
      Cardinality(TextPlaceSets[newsItems[n]]) >= 2 =>
        \A p \in TextPlaceSets[newsItems[n]] :
          \E k \in AreasFor(p) :
            /\ moodJson[1].areas[k].sampleCount
                 >= Cardinality(KeysBefore(p, n) \cup { ItemKey(newsItems[n]) })
            /\ \E b \in Elems(buckets) :
                 /\ b.place = p
                 /\ \E e \in Elems(b.items) : e[1] = ItemKey(newsItems[n])
            /\ ( /\ Cardinality(KeysBefore(p, n)) < ExamplesCap
                 /\ ItemKey(newsItems[n]) \notin KeysBefore(p, n) )
               => ExampleOf(newsItems[n]) \in Elems(moodJson[1].areas[k].examples)

\* an item naming two places is in the examples of two areas, each with
\* another item as well
C12_Witness ==
  /\ Analysed
  /\ \E n \in 1..Len(newsItems) :
       /\ Cardinality(TextPlaceSets[newsItems[n]]) >= 2
       /\ \A p \in TextPlaceSets[newsItems[n]] :
            \E k \in AreasFor(p) :
              /\ ExampleOf(newsItems[n]) \in Elems(moodJson[1].areas[k].examples)
              /\ moodJson[1].areas[k].sampleCount >= 2

\* the items of the model for which no heuristic finds a place
NoPlaceItems == { i \in NewsPool : PlaceSets[i] = {} }

\* C13: the loop step of an item with no place changes no bucket (no
\* sampleCount, examples or frequency table), raises no error and goes on to
\* the next item; and no step of the analysis modifies news.json.
C13_NoPlaceNoBucket ==
  [][ /\ newsJson' = newsJson
      /\ ( /\ pc = "loop"
           /\ ii <= Len(newsItems)
           /\ newsItems[ii] \in NoPlaceItems )
         => /\ buckets' = buckets
            /\ pc' = "loop"
            /\ ii' = ii + 1
            /\ logged' = logged
            /\ exitCode' = None ]_vars

\* the loop has passed an item without a place after bucketing another item,
\* and the run has written mood.json
C13_Witness ==
  /\ Analysed
  /\ buckets # <<>>
  /\ \E n \in 1..Len(newsItems) : n > 1 /\ newsItems[n] \in NoPlaceItems

\* the items mapped to place p that are the first with their key, in order
FirstSeen(p) ==
  SelectSeq([ n \in 1..Len(newsItems) |-> n ],
            LAMBDA n : n \in MappedTo(p) /\ ItemKey(newsItems[n]) \notin KeysBefore(p, n))

\* C14: for every bucket, sampleCount is the number of distinct items mapped
\* to the place, items being told apart by link, or by title when there is
\* no link; examples holds no two entries with the same link (or title), is
\* in first-seen order and has exactly min(cap, sampleCount) entries.
C14_DistinctCountAndExamples ==
  Analysed =>
    \A k \in 1..Len(moodJson[1].areas) :
      LET a     == moodJson[1].areas[k]
          first == FirstSeen(a.place)
      IN /\ a.sampleCount = Cardinality({ ItemKey(newsItems[n]) : n \in MappedTo(a.place) })
         /\ Len(a.examples) = (IF a.sampleCount < ExamplesCap THEN a.sampleCount
                               ELSE ExamplesCap)
         /\ \A m \in 1..Len(a.examples) : a.examples[m] = ExampleOf(newsItems[first[m]])
         /\ \A m, n \in 1..Len(a.examples) :
              ItemKey(a.examples[m]) = ItemKey(a.examples[n]) => m = n

\* a bucket received three items, two of them with one link: it counts two
\* and shows the first and the third
C14_Witness ==
  /\ Analysed
  /\ \E k \in 1..Len(moodJson[1].areas) :
       LET a == moodJson[1].areas[k]
       IN /\ Cardinality(MappedTo(a.place)) = 3
          /\ a.sampleCount = 2
          /\ Len(a.examples) = 2
          /\ \E n \in MappedTo(a.place) :
               /\ \E m \in MappedTo(a.place) : m < n /\ newsItems[m] # newsItems[n]
                                                /\ ItemKey(newsItems[m]) = ItemKey(newsItems[n])
               /\ \E m \in MappedTo(a.place) : m > n
                                                /\ a.examples[2] = ExampleOf(newsItems[m])

-----------------------------------------------------------------------------
(* Phrases on their own: phrases applied to bounded texts *)

\* most words in a title
MaxPhraseWords == 3

\* words titles are built from: two content words, two stop-words (one of
\* them with a capital), a number and a word of two letters
PhraseWords ==
  { <<"t","a","x">>, <<"r","i","s","e">>, <<"t","h","e">>, <<"C","o","u","n","c","i","l">>, <<"1","2">>, <<"u","s">> }

RECURSIVE JoinWords(_)
JoinWords(ws) ==
  IF ws = <<>> THEN <<>>
  ELSE IF Len(ws) = 1 THEN Head(ws)
  ELSE Head(ws) \o <<" ">> \o JoinWords(Tail(ws))

HeadlineText ==
  <<"C","o","u","n","c","i","l"," ","t","a","x"," ","r","i","s","e"," ","h","i","t","s"," ","p","e","n","s","i","o","n","e","r","s">>

PhraseTitles ==
  { JoinWords(ws) : ws \in SeqsUpTo(PhraseWords, MaxPhraseWords) } \cup { HeadlineText }

PhraseSummaries == { <<>>, <<"t","a","x"," ","r","i","s","e">> }

InitPhrases ==
  /\ pc = "idle"
  /\ si = 1
  /\ ci = 1
  /\ trace = <<>>
  /\ all = <<>>
  /\ allFrom = <<>>
  /\ warned = {}
  /\ newsJson = PrevNews
  /\ exitCode = None
  /\ title \in PhraseTitles
  /\ summary \in PhraseSummaries
  /\ verdict = None
  /\ newsReadable = "ok"
  /\ newsItems = <<>>
  /\ ii = 1
  /\ buckets = <<>>
  /\ moodJson = None
  /\ logged = None
  /\ written = <<>>
  /\ theItem = None
  /\ places = None
  /\ phr = None
  /\ AppIdle

\* the call phrases(title, summary)
Phrases ==
  /\ pc = "idle"
  /\ theItem = None
  /\ phr = None
  /\ phr' = Some(phrases(title, summary))
  /\ UNCHANGED <<pc, newsJson, exitCode, title, summary>>
  /\ UNCHANGED ingestVars
  /\ UNCHANGED appVars
  /\ UNCHANGED <<newsReadable, newsItems, ii, buckets, moodJson, logged, written,
                 theItem, places>>

NextPhrases == Phrases

SpecPhrases == InitPhrases /\ [][NextPhrases]_vars

-----------------------------------------------------------------------------
(* Properties of phrases *)

\* phrases has been called on the text of the state
PhrasesCalled == pc = "idle" /\ theItem = None /\ phr # None

\* the filtered token sequence of that text
Filtered == SelectSeq(tokens(title \o <<" ">> \o summary), isContent)

RECURSIVE SumCounts(_)
SumCounts(m) == IF m = <<>> THEN 0 ELSE Head(m)[2] + SumCounts(Tail(m))

\* the bigram table counts every adjacent pair of the filtered sequence, and
\* nothing else; n tokens give n-1 occurrences
AdjacentPairsCounted ==
  LET t     == Filtered
      pairs == [ n \in 1..(Len(t) - 1) |-> t[n] \o <<" ">> \o t[n + 1] ]
      bi    == phr[1].bi
  IN /\ \A e \in Elems(bi) :
          /\ e[2] >= 1
          /\ e[2] = Cardinality({ n \in 1..Len(pairs) : pairs[n] = e[1] })
     /\ \A n \in 1..Len(pairs) : \E e \in Elems(bi) : e[1] = pairs[n]
     /\ \A m, n \in 1..Len(bi) : bi[m][1] = bi[n][1] => m = n
     /\ SumCounts(bi) = (IF Len(t) = 0 THEN 0 ELSE Len(t) - 1)

\* C15 as stated: bigrams are the adjacent pairs of the filtered sequence, and
\* the words council, tax, rise, hits, pensioners give "council tax",
\* "tax rise", "rise hits" and "hits pensioners" once each and nothing else.
C15_CouncilTaxExample ==
  PhrasesCalled =>
    /\ AdjacentPairsCounted
    /\ title = HeadlineText /\ summary = <<>> =>
         phr[1].bi = << <<<<"c","o","u","n","c","i","l"," ","t","a","x">>, 1>>,
                        <<<<"t","a","x"," ","r","i","s","e">>, 1>>,
                        <<<<"r","i","s","e"," ","h","i","t","s">>, 1>>,
                        <<<<"h","i","t","s"," ","p","e","n","s","i","o","n","e","r","s">>, 1>> >>

\* C15: bigrams are exactly the adjacent pairs of the filtered token
\* sequence, so that n tokens add n-1 bigram occurrences and a bigram
\* bridges the tokens removed between its two words; the words council, tax,
\* rise, hits, pensioners filter to tax, rise, hits, pensioners ("council"
\* is a stop-word) and give "tax rise", "rise hits" and "hits pensioners"
\* once each and nothing else.
C15_AdjacentFilteredPairs ==
  PhrasesCalled =>
    /\ AdjacentPairsCounted
    /\ title = HeadlineText /\ summary = <<>> =>
         phr[1].bi = << <<<<"t","a","x"," ","r","i","s","e">>, 1>>,
                        <<<<"r","i","s","e"," ","h","i","t","s">>, 1>>,
                        <<<<"h","i","t","s"," ","p","e","n","s","i","o","n","e","r","s">>, 1>> >>

\* a bigram was counted whose two words had a removed token between them
C15_Witness ==
  /\ PhrasesCalled
  /\ Len(Filtered) >= 2
  /\ LET raw == tokens(title)
     IN \E n \in 1..(Len(raw) - 2) :
          /\ isContent(raw[n])
          /\ ~isContent(raw[n + 1])
          /\ isContent(raw[n + 2])
          /\ \E e \in Elems(phr[1].bi) : e[1] = raw[n] \o <<" ">> \o raw[n + 2]

-----------------------------------------------------------------------------
(* Properties of the areas *)

\* the bucket of the place of area a
BucketOf(a) == CHOOSE b \in Elems(buckets) : b.place = a.place

\* the index of the entry of table m with key k
IndexIn(m, k) == CHOOSE n \in 1..Len(m) : m[n][1] = k

\* entry x of table m ranks before entry y: a higher count, or the same
\* count and an earlier insertion
Before(m, x, y) == m[x][2] > m[y][2] \/ (m[x][2] = m[y][2] /\ x < y)

\* the number of entries of table m that rank before entry x
RankIn(m, x) == Cardinality({ y \in 1..Len(m) : Before(m, y, x) })

InTable(m, k) == \E n \in 1..Len(m) : m[n][1] = k

\* C16: the issues of a bucket are at most the top-N bigrams of its bigram
\* table by accumulated frequency, in descending order, bigrams of equal
\* frequency in the order of their first insertion into the table.
C16_IssuesTopBigrams ==
  Analysed =>
    \A k \in 1..Len(moodJson[1].areas) :
      LET a  == moodJson[1].areas[k]
          bi == BucketOf(a).bi
      IN /\ Len(a.issues) = (IF Len(bi) < TopCount THEN Len(bi) ELSE TopCount)
         /\ \A n \in 1..Len(a.issues) :
              /\ InTable(bi, a.issues[n])
              /\ RankIn(bi, IndexIn(bi, a.issues[n])) = n - 1

\* a bucket holds more bigrams than issues are kept; the first issue was
\* inserted after rarer bigrams, and the last one wins a tie by insertion
C16_Witness ==
  /\ Analysed
  /\ \E k \in 1..Len(moodJson[1].areas) :
       LET a  == moodJson[1].areas[k]
           bi == BucketOf(a).bi
       IN /\ Len(bi) > TopCount
          /\ Len(a.issues) = TopCount
          /\ IndexIn(bi, a.issues[1]) > 1
          /\ \E y \in 1..Len(bi) :
               /\ bi[y][1] \notin Elems(a.issues)
               /\ bi[y][2] = bi[IndexIn(bi, a.issues[TopCount])][2]

\* the words of an issue phrase
WordsOf(issue) == Elems(SplitFrom(issue, 1, <<>>))

\* C17: the keywords of a bucket are its top-N unigrams by descending
\* frequency, without those that are a substring of one of its issues, in
\* that order; so no word of a bigram of the issues is a keyword.
C17_KeywordsExcludeIssueWords ==
  Analysed =>
    \A k \in 1..Len(moodJson[1].areas) :
      LET a    == moodJson[1].areas[k]
          uni  == BucketOf(a).uni
          kept == { w \in { uni[n][1] : n \in 1..Len(uni) } :
                      /\ RankIn(uni, IndexIn(uni, w)) < TopCount
                      /\ \A i \in Elems(a.issues) : ~Includes(i, w) }
      IN /\ Elems(a.keywords) = kept
         /\ NoDuplicates(a.keywords)
         /\ \A m, n \in 1..Len(a.keywords) :
              m < n => Before(uni, IndexIn(uni, a.keywords[m]), IndexIn(uni, a.keywords[n]))
         /\ \A i \in Elems(a.issues) : WordsOf(i) \cap Elems(a.keywords) = {}

\* a bucket with issues keeps one of its top unigrams as a keyword and drops
\* another, which is a word of an issue
C17_Witness ==
  /\ Analysed
  /\ \E k \in 1..Len(moodJson[1].areas) :
       LET a   == moodJson[1].areas[k]
           uni == BucketOf(a).uni
       IN /\ a.issues # <<>>
          /\ a.keywords # <<>>
          /\ \E n \in 1..Len(uni) :
               /\ RankIn(uni, n) < TopCount
               /\ uni[n][1] \notin Elems(a.keywords)
               /\ \E i \in Elems(a.issues) : uni[n][1] \in WordsOf(i)

\* the places inferred for the items of news.json
InferredPlaces == UNION { PlaceSets[newsItems[n]] : n \in 1..Len(newsItems) }

\* C18: areas is ordered by non-increasing sampleCount, and every inferred
\* place is the place of exactly one area.
C18_AreasDescending ==
  Analysed =>
    /\ \A m, n \in 1..Len(moodJson[1].areas) :
         m < n => moodJson[1].areas[m].sampleCount >= moodJson[1].areas[n].sampleCount
    /\ \A p \in InferredPlaces : Cardinality(AreasFor(p)) = 1
    /\ \A k \in 1..Len(moodJson[1].areas) : moodJson[1].areas[k].place \in InferredPlaces

\* the bucket made first has fewer items than a later one, and comes after
\* it in areas
C18_Witness ==
  /\ Analysed
  /\ Len(buckets) >= 2
  /\ Len(buckets[1].items) < Len(buckets[2].items)
  /\ moodJson[1].areas[1].place = buckets[2].place
  /\ moodJson[1].areas[2].place = buckets[1].place

\* the buckets of a run that starts from no bucket
RECURSIVE FoldItems(_, _)
FoldItems(bs, its) ==
  IF its = <<>> THEN bs ELSE FoldItems(AddItem(bs, Head(its)), Tail(its))

\* C19: every run of the analysis on the same news.json writes the same
\* areas, which are those computed from news.json alone, whatever mood.json
\* held before; only updatedAt changes from run to run.
C19_Idempotent ==
  /\ \A n \in 1..Len(written) : written[n] = Areas(FoldItems(<<>>, newsJson.items))
  /\ Analysed => /\ moodJson[1].areas = written[Len(written)]
                 /\ moodJson[1].updatedAt = Len(written)

\* the analysis ran twice on a news.json with places and wrote mood.json
\* both times
C19_Witness ==
  /\ Analysed
  /\ Len(written) = 2
  /\ written[1] # <<>>
  /\ moodJson[1].updatedAt = 2

\* C20: if news.json cannot be read or parsed, the stage ends with exit
\* status 1 after logging the cause, and mood.json is not written.
C20_UnreadableNewsExits ==
  newsReadable \in { "missing", "corrupt" } =>
    /\ pc \in { "start", "exit1" }
    /\ pc = "exit1" => exitCode = Some(1) /\ logged = Some(newsReadable)
    /\ written = <<>>
    /\ moodJson \in { None, StaleMood }

\* the run on a corrupt news.json has ended and the mood.json of an earlier
\* run is still there
C20_Witness ==
  /\ newsReadable = "corrupt"
  /\ pc = "exit1"
  /\ exitCode = Some(1)
  /\ moodJson = StaleMood
-----------------------------------------------------------------------------
(* Properties of the exit status and of the artifact write *)

\* writeFile has resolved in this run: news.json holds the new content
NewsWritten == newsJson.updatedAt = "now"

\* C21: the ingestion stage exits with a non-zero status only for a fault at
\* the top level of main, the failure to write news.json: while the sources
\* are fetched the process is running, whatever failed, even every source;
\* a run whose write succeeded ends with status 0, and a run whose write
\* failed ends with status 1.
C21_ExitOnlyOnWriteFailure ==
  /\ pc \in { "delay", "parse", "write" } => exitCode = None
  /\ exitCode = Some(1) <=> pc = "exit1"
  /\ exitCode = Some(0) <=> pc = "done"
  /\ pc = "exit1" => si = Len(SOURCES) + 1 /\ ~NewsWritten
  /\ pc = "done" => NewsWritten

\* every source failed on every candidate, and the run has ended with status 0
C21_Witness ==
  /\ pc = "done"
  /\ exitCode = Some(0)
  /\ warned = 1..Len(SOURCES)
  /\ \A e \in Elems(ParseEvents) : ~e.ok

\* C22: news.json is written by one write issued as the last step of the
\* run, after the whole content has been built in memory: whatever happens
\* in the run, the file holds either the artifact of the previous run,
\* exactly as it was, or the complete new artifact of a run that ended, so
\* that no partial or corrupt artifact ever replaces a valid one.
C22_NoPartialArtifact ==
  \/ newsJson = PrevNews
  \/ /\ pc = "done"
     /\ NewsWritten
     /\ newsJson.items \in Rank(all)

-----------------------------------------------------------------------------
(* Properties of the courtesy delay and of the attempts *)

RECURSIVE TotalCandidatesFrom(_)
TotalCandidatesFrom(s) ==
  IF s > Len(SOURCES) THEN 0
  ELSE Len(SOURCES[s].candidates) + TotalCandidatesFrom(s + 1)

\* the number of candidate URLs of the registry
TotalCandidates == TotalCandidatesFrom(1)

\* every parseURL call of the history comes right after a delay() call for
\* the same candidate, is for a candidate of the registry, and no candidate
\* is tried twice
DelayedSingleAttempts ==
  /\ \A k \in 1..Len(trace) :
       trace[k].op = "parse" =>
         /\ k > 1
         /\ trace[k - 1].op = "delay"
         /\ trace[k - 1].src = trace[k].src
         /\ trace[k - 1].cand = trace[k].cand
         /\ trace[k].src \in 1..Len(SOURCES)
         /\ trace[k].cand \in 1..Len(SOURCES[trace[k].src].candidates)
  /\ \A j, k \in 1..Len(trace) :
       /\ trace[j].op = "parse"
       /\ trace[k].op = "parse"
       /\ trace[j].src = trace[k].src
       /\ trace[j].cand = trace[k].cand
       => j = k
  /\ Len(ParseEvents) <= TotalCandidates

\* C23: every fetch attempt comes right after the courtesy delay, every
\* candidate URL of every source is tried at most once, so that the attempts
\* never outnumber the configured candidates; and the run reaches the write
\* step whatever the outcome of each attempt.
C23_DelayedAttemptsThenWrite ==
  /\ []DelayedSingleAttempts
  /\ <>(pc = "write")

\* the run is at the write step after every candidate of every source has
\* been tried once, each after a delay
C23_Witness ==
  /\ pc = "write"
  /\ Len(ParseEvents) = TotalCandidates
  /\ Len(trace) = 2 * TotalCandidates

-----------------------------------------------------------------------------
(* Properties of the token filters *)

\* w may be counted: three characters or more, not a number, not a stop-word,
\* and no upper-case letter
CountableWord(w) ==
  /\ Len(w) >= 3
  /\ \E n \in 1..Len(w) : w[n] \notin Digits
  /\ \A n \in 1..Len(STOP) : STOP[n] # w
  /\ \A n \in 1..Len(w) : w[n] \notin Elems(UpperCase)

\* the words of a bigram key: the pieces between its spaces
KeyWords(k) == SplitFrom(k, 1, <<>>)

\* C24: no token shorter than 3 characters, no purely numeric token and no
\* stop-word is a key of a unigram table or one of the two words of a key of
\* a bigram table, for any title and summary; every counted token is in
\* lower case.
C24_OnlyContentTokens ==
  PhrasesCalled =>
    /\ \A e \in Elems(phr[1].uni) : CountableWord(e[1])
    /\ \A e \in Elems(phr[1].bi) :
         /\ Len(KeyWords(e[1])) = 2
         /\ CountableWord(KeyWords(e[1])[1])
         /\ CountableWord(KeyWords(e[1])[2])

\* a text with a capitalised stop-word, a number and a word of two letters
\* was tokenised, and words of it were counted
C24_Witness ==
  /\ PhrasesCalled
  /\ phr[1].bi # <<>>
  /\ LET raw == tokens(title \o <<" ">> \o summary)
     IN /\ \E n \in 1..Len(raw) : raw[n] \in StopWords
        /\ \E n \in 1..Len(raw) : AllDigits(raw[n])
        /\ \E n \in 1..Len(raw) : Len(raw[n]) < 3 /\ ~AllDigits(raw[n])
        /\ \E n \in 1..Len(title) : title[n] \in Elems(UpperCase)

-----------------------------------------------------------------------------
(* Properties of the text and hostname heuristics *)

\* name p stands in text t as a word of its own, in any letter case: no
\* letter, digit or underscore comes right before it or right after it
OccursAsWord(p, t) ==
  \E n \in 1..Len(t) :
    /\ MatchAt(p, t, n)
    /\ n = 1 \/ ~IsWordChar(t[n - 1])
    /\ n + Len(p) > Len(t) \/ ~IsWordChar(t[n + Len(p)])

\* name p stands in text t, but only inside longer words
OnlyInsideWords(p, t) == TestAnywhere(p, t) /\ ~OccursAsWord(p, t)

\* C25: the text heuristic assigns a place only when its name occurs in the
\* text as a whole word, in any letter case: a returned place stands as a
\* word in title+summary, unless the hostname or the source gave it, and a
\* name found only inside longer words assigns nothing.
C25_WholeWordPlaces ==
  places # None /\ theItem # None =>
    LET i    == theItem[1]
        text == i.title \o <<" ">> \o i.summary
    IN \A p \in Elems(PLACES) :
         /\ ( /\ p \in Elems(places[1])
              /\ p \notin HostPlaces(i) \cup SourcePlaces(i) \cup SourceTextPlaces(i) )
            => OccursAsWord(p, text)
         /\ ( /\ OnlyInsideWords(p, text)
              /\ p \notin HostPlaces(i) \cup SourcePlaces(i) \cup SourceTextPlaces(i) )
            => p \notin Elems(places[1])
         /\ OccursAsWord(p, text) => p \in Elems(places[1])

\* a text holds one place name inside a longer word and another one as a
\* word: only the second is returned
C25_Witness ==
  /\ places # None
  /\ theItem # None
  /\ theItem[1].link = <<>>
  /\ theItem[1].source = <<>>
  /\ LET text == theItem[1].title \o <<" ">> \o theItem[1].summary
     IN /\ \E p \in Elems(PLACES) : OnlyInsideWords(p, text) /\ p \notin Elems(places[1])
        /\ \E p \in Elems(places[1]) : OccursAsWord(p, text)

\* host h is domain d or a host under it
HostOfDomain(h, d) ==
  \/ h = d
  \/ /\ Len(h) > Len(d) + 1
     /\ SubSeq(h, Len(h) - Len(d), Len(h)) = <<".">> \o d

\* C26: a link on any host of a mapped domain, with or without "www." or
\* another subdomain prefix and in any letter case, yields the place of the
\* domain; a missing or malformed link yields no place by the hostname, and
\* inferPlaces returns all the same.
C26_AnyHostOfMappedDomain ==
  places # None /\ theItem # None =>
    LET i == theItem[1]
        h == UrlHostname(i.link)
    IN /\ \A n \in 1..Len(DOMAIN_TO_PLACE) :
            HostOfDomain(h, DOMAIN_TO_PLACE[n][1])
              => DOMAIN_TO_PLACE[n][2] \in Elems(places[1])
       /\ h = <<>> =>
            Elems(places[1]) = TextPlaces(i) \cup SourcePlaces(i) \cup SourceTextPlaces(i)

-----------------------------------------------------------------------------
(* Properties of the content of news.json *)

\* the raw entries whose normalised title and summary isPolitical accepts
PoliticalRaw ==
  { raw \in RawEntries :
      isPolitical(normalize(raw, <<>>).title, normalize(raw, <<>>).summary) }

\* item it was made, in this run, of an entry of the feed that a source
\* accepted, and that entry is political
FetchedThisRun(it) ==
  \E e \in Elems(ParseEvents) :
    /\ Succeeded(e)
    /\ \E n \in 1..Len(e.feed.items) :
         /\ it = normalize(e.feed.items[n], OrElse(e.feed.title, SOURCES[e.src].name))
         /\ e.feed.items[n] \in PoliticalRaw

\* C27: every item of the news.json an ingestion run has written was made in
\* that run of an entry of the feed accepted for some source, and is
\* political; no entry that is not political and no item of the previous
\* news.json is in the new artifact.
C27_OnlyFetchedPoliticalItems ==
  pc = "done" /\ NewsWritten =>
    \A n \in 1..Len(newsJson.items) :
      /\ FetchedThisRun(newsJson.items[n])
      /\ newsJson.items[n] \notin Elems(PrevNews.items)

\* a run has written items although one accepted feed held an entry that is
\* not political
C27_Witness ==
  /\ pc = "done"
  /\ NewsWritten
  /\ newsJson.items # <<>>
  /\ \E e \in Elems(ParseEvents) :
       /\ Succeeded(e)
       /\ \E n \in 1..Len(e.feed.items) : e.feed.items[n] \notin PoliticalRaw

-----------------------------------------------------------------------------
(* Properties of the frequency tables *)

\* the sum of the tables tbl[i] of the items of news.json at the indices idx
RECURSIVE SumTables(_, _)
SumTables(tbl, idx) ==
  IF idx = <<>> THEN <<>>
  ELSE Merge(SumTables(tbl, SubSeq(idx, 1, Len(idx) - 1)), tbl[newsItems[idx[Len(idx)]]])

UniTable == [ i \in NewsPool |-> PhrasesTable[i].uni ]

BiTable == [ i \in NewsPool |-> PhrasesTable[i].bi ]

\* C28: for every bucket, the unigram and bigram tables are the sums of the
\* counts of exactly the distinct items counted in sampleCount: each distinct
\* item (by link, or by title without a link) adds its phrase counts once,
\* even when news.json holds several items with the same link.
C28_TablesOfDistinctItems ==
  Analysed =>
    \A k \in 1..Len(buckets) :
      /\ Elems(buckets[k].uni) = Elems(SumTables(UniTable, FirstSeen(buckets[k].place)))
      /\ Elems(buckets[k].bi) = Elems(SumTables(BiTable, FirstSeen(buckets[k].place)))

-----------------------------------------------------------------------------
(* The dashboard: App, useFetchWiki and InsightsPanel *)

\* most fetchPage calls of one session
MaxRequests == 3

\* the hotspots kept by deltas.slice(0, 8)
MaxHotspots == 2

\* the issues kept by .slice(0, 12)
MaxTopIssues == 2

tabs == << "Polling averages", "Seat projections", "MRP", "Scotland",
           "Insights", "News", "Issues" >>

\* the keys of the keydown events
Keys == { "r", "R", "1", "5", "0", "x" }

\* e.key.toLowerCase()
KeyLower(k) == IF k = "R" THEN "r" ELSE k

\* parseInt(e.key, 10) - 1: <<>> for NaN
KeyIndex(k) ==
  CASE k = "0" -> Some(-1)
    [] k = "1" -> Some(0)
    [] k = "5" -> Some(4)
    [] OTHER   -> None

\* the bodies the Wikipedia REST endpoint serves
WikiPages == { "page A", "page B" }

\* the served /data/mood.json files: the `areas`, with the fields the panel reads
MoodFiles ==
  { << [ place |-> "Wigan", sampleCount |-> 3, issues |-> << "bus cuts" >> ] >>,
    << [ place |-> "Bolton", sampleCount |-> 1, issues |-> << "tax rise", "bus cuts" >> ],
       [ place |-> "Wigan", sampleCount |-> 1, issues |-> << "bus cuts", "bus cuts" >> ],
       [ place |-> "Devon", sampleCount |-> 5, issues |-> <<>> ] >> }

\* localStorage "rosebud_prevVolumes" as the previous session left it:
\* <<>> for no entry, else <<the object, as <<place, sampleCount>> pairs>>
StoredSnapshots ==
  { None,
    Some(<< <<"Wigan", 2>> >>),
    Some(<< <<"Devon", 4>>, <<"Wigan", 1>> >>) }

\* m.set(k, v) on a Map kept as <<key, value>> entries in insertion order
MapSet(m, k, v) ==
  IF \E n \in 1..Len(m) : m[n][1] = k
    THEN [ n \in 1..Len(m) |-> IF m[n][1] = k THEN <<k, v>> ELSE m[n] ]
    ELSE Append(m, <<k, v>>)

\* for (const a of mood.areas) areaVolumes.set(a.place, a.sampleCount || 0)
RECURSIVE areaVolumes(_)
areaVolumes(areas) ==
  IF areas = <<>> THEN <<>>
  ELSE LET a == areas[Len(areas)]
       IN MapSet(areaVolumes(SubSeq(areas, 1, Len(areas) - 1)), a.place, a.sampleCount)

\* new Set(a.issues), in insertion order
RECURSIVE uniqueIssues(_)
uniqueIssues(issues) ==
  IF issues = <<>> THEN <<>>
  ELSE LET init == uniqueIssues(SubSeq(issues, 1, Len(issues) - 1))
           last == issues[Len(issues)]
       IN IF \E n \in 1..Len(init) : init[n] = last THEN init ELSE Append(init, last)

\* allIssues: issue -> in how many areas it appears
RECURSIVE allIssues(_)
allIssues(areas) ==
  IF areas = <<>> THEN <<>>
  ELSE LET u == uniqueIssues(areas[Len(areas)].issues)
       IN Merge(allIssues(SubSeq(areas, 1, Len(areas) - 1)),
                [ n \in 1..Len(u) |-> <<u[n], 1>> ])

\* Array.from(allIssues.entries()).sort((a, b) => b[1] - a[1]).slice(0, 12)
\*   .map(([text, places]) => ({ text, places }))
topIssuesOf(areas) ==
  LET m   == allIssues(areas)
      idx == SortIndex([ k \in 1..Len(m) |-> m[k][2] ])
  IN [ k \in 1..(IF Len(m) < MaxTopIssues THEN Len(m) ELSE MaxTopIssues) |->
         [ text |-> m[idx[k]][1], places |-> m[idx[k]][2] ] ]

\* JSON.parse(localStorage.getItem("rosebud_prevVolumes") || "{}")
ParsedSnapshot(stored) == IF stored = None THEN <<>> ELSE stored[1]

\* Number(prev[place] || 0)
beforeOf(prev, place) ==
  LET v == Lookup(prev, place) IN IF v = None THEN 0 ELSE v[1]

\* the deltas of the useMemo of InsightsPanel, sorted by change, largest first,
\* and cut by slice(0, 8)
hotspotsOf(areas, prev) ==
  LET vols   == areaVolumes(areas)
      deltas == [ n \in 1..Len(vols) |->
                    [ place  |-> vols[n][1],
                      change |-> vols[n][2] - beforeOf(prev, vols[n][1]),
                      now    |-> vols[n][2],
                      before |-> beforeOf(prev, vols[n][1]) ] ]
      idx    == SortIndex([ n \in 1..Len(deltas) |-> deltas[n].change ])
  IN [ n \in 1..(IF Len(deltas) < MaxHotspots THEN Len(deltas) ELSE MaxHotspots) |->
         deltas[idx[n]] ]

\* the useMemo of InsightsPanel for a mood with these areas; stored tells
\* whether localStorage.setItem went through (its exception is swallowed)
useMemo(areas, stored) ==
  /\ topIssues' = topIssuesOf(areas)
  /\ hotspots' = hotspotsOf(areas, ParsedSnapshot(prevVolumes))
  /\ prevVolumes' = IF stored THEN Some(areaVolumes(areas)) ELSE prevVolumes

\* the content part of App's render for the states l (loading), e (error) and
\* f (filter): InsightsPanel is mounted, with its first render and its effect,
\* when it comes to be shown, and unmounted when it stops being shown
Render(l, e, f, stored) ==
  LET show == ~l /\ e = "" /\ f = "Insights"
  IN IF show /\ ~panel
       THEN /\ panel' = TRUE
            /\ mood' = <<>>
            /\ moodReq' = "pending"
            /\ useMemo(<<>>, stored)
     ELSE IF ~show /\ panel
       THEN /\ panel' = FALSE
            /\ mood' = <<>>
            /\ moodReq' = "none"
            /\ topIssues' = <<>>
            /\ hotspots' = <<>>
            /\ UNCHANGED prevVolumes
     ELSE UNCHANGED panelVars

scriptVars == <<pc, newsJson, exitCode, title, summary, ingestVars, analysisVars>>

\* new Date(), as the number of requests ended so far
Clock == Cardinality({ n \in 1..Len(reqs) : reqs[n] \in { "ok", "failed" } })

InitApp ==
  /\ pc = "idle"
  /\ si = 1
  /\ ci = 1
  /\ trace = <<>>
  /\ all = <<>>
  /\ allFrom = <<>>
  /\ warned = {}
  /\ newsJson = PrevNews
  /\ exitCode = None
  /\ title = <<>>
  /\ summary = <<>>
  /\ verdict = None
  /\ AnalysisIdle
  /\ page = "load"
  /\ html = ""
  /\ loading = FALSE
  /\ error = ""
  /\ fetchedAt = None
  /\ reqs = <<>>
  /\ filter \in Elems(tabs)
  /\ panel = FALSE
  /\ mood = <<>>
  /\ moodReq = "none"
  /\ topIssues = <<>>
  /\ hotspots = <<>>
  /\ prevVolumes \in StoredSnapshots
  /\ prevSession = prevVolumes

\* the page is opened: the first render of App (which renders InsightsPanel,
\* and so runs its useMemo, when the stored tab is Insights), then the mount
\* effect of useFetchWiki calls fetchPage and the Loading card replaces the panel
Mount(stored) ==
  /\ page = "load"
  /\ page' = "open"
  /\ loading' = TRUE
  /\ error' = ""
  /\ reqs' = Append(reqs, "fetch")
  /\ prevVolumes' = IF filter = "Insights" /\ stored THEN Some(<<>>) ELSE prevVolumes
  /\ UNCHANGED <<html, fetchedAt, filter, panel, mood, moodReq, topIssues, hotspots,
                 prevSession>>
  /\ UNCHANGED scriptVars

\* onClick={fetchPage} of the Refresh button
Refresh(stored) ==
  /\ page = "open"
  /\ Len(reqs) < MaxRequests
  /\ loading' = TRUE
  /\ error' = ""
  /\ reqs' = Append(reqs, "fetch")
  /\ Render(TRUE, "", filter, stored)
  /\ UNCHANGED <<page, html, fetchedAt, filter, prevSession>>
  /\ UNCHANGED scriptVars

\* the keydown handler of App
KeyDown(key, stored) ==
  LET refresh == KeyLower(key) = "r"
      idx     == KeyIndex(key)
      f       == IF idx # None /\ idx[1] \in 0..(Len(tabs) - 1)
                   THEN tabs[idx[1] + 1] ELSE filter
      l       == IF refresh THEN TRUE ELSE loading
      e       == IF refresh THEN "" ELSE error
  IN /\ page = "open"
     /\ refresh => Len(reqs) < MaxRequests
     /\ loading' = l
     /\ error' = e
     /\ reqs' = IF refresh THEN Append(reqs, "fetch") ELSE reqs
     /\ filter' = f
     /\ Render(l, e, f, stored)
     /\ UNCHANGED <<page, html, fetchedAt, prevSession>>
     /\ UNCHANGED scriptVars

\* onClick={() => setFilter(t)} of a tab chip
ChipClick(t, stored) ==
  /\ page = "open"
  /\ filter' = t
  /\ Render(loading, error, t, stored)
  /\ UNCHANGED <<page, html, loading, error, fetchedAt, reqs, prevSession>>
  /\ UNCHANGED scriptVars

\* request r: await fetch(...) rejects; catch sets error, finally clears loading
FetchRejects(r, stored) ==
  /\ r \in 1..Len(reqs)
  /\ reqs[r] = "fetch"
  /\ reqs' = [ reqs EXCEPT ![r] = "failed" ]
  /\ error' = "Failed to fetch"
  /\ loading' = FALSE
  /\ Render(FALSE, "Failed to fetch", filter, stored)
  /\ UNCHANGED <<page, html, fetchedAt, filter, prevSession>>
  /\ UNCHANGED scriptVars

\* request r: await fetch(...) resolves with this status; a response that is
\* not ok throws `HTTP ${res.status}`, an ok one goes on to await res.text()
FetchResolves(r, status, stored) ==
  /\ r \in 1..Len(reqs)
  /\ reqs[r] = "fetch"
  /\ IF status \in 200..299
       THEN /\ reqs' = [ reqs EXCEPT ![r] = "text" ]
            /\ UNCHANGED <<error, loading>>
            /\ UNCHANGED panelVars
       ELSE /\ reqs' = [ reqs EXCEPT ![r] = "failed" ]
            /\ error' = "HTTP 503"
            /\ loading' = FALSE
            /\ Render(FALSE, "HTTP 503", filter, stored)
  /\ UNCHANGED <<page, html, fetchedAt, filter, prevSession>>
  /\ UNCHANGED scriptVars

\* request r: await res.text() resolves; setHtml, setFetchedAt, then finally
TextResolves(r, text, stored) ==
  /\ r \in 1..Len(reqs)
  /\ reqs[r] = "text"
  /\ reqs' = [ reqs EXCEPT ![r] = "ok" ]
  /\ html' = text
  /\ fetchedAt' = Some(Clock + 1)
  /\ loading' = FALSE
  /\ Render(FALSE, error, filter, stored)
  /\ UNCHANGED <<page, error, filter, prevSession>>
  /\ UNCHANGED scriptVars

\* request r: await res.text() rejects
TextRejects(r, stored) ==
  /\ r \in 1..Len(reqs)
  /\ reqs[r] = "text"
  /\ reqs' = [ reqs EXCEPT ![r] = "failed" ]
  /\ error' = "Failed to fetch"
  /\ loading' = FALSE
  /\ Render(FALSE, "Failed to fetch", filter, stored)
  /\ UNCHANGED <<page, html, fetchedAt, filter, prevSession>>
  /\ UNCHANGED scriptVars

\* InsightsPanel: mood.json was fetched and parsed; .then(setMood) renders again
MoodResolves(m, stored) ==
  /\ panel
  /\ moodReq = "pending"
  /\ moodReq' = "done"
  /\ mood' = m
  /\ useMemo(m, stored)
  /\ UNCHANGED <<page, html, loading, error, fetchedAt, reqs, filter, panel, prevSession>>
  /\ UNCHANGED scriptVars

\* InsightsPanel: the response is not ok, or fetch or r.json() rejects:
\* setMood({ areas: [], updatedAt: null })
MoodFails(stored) ==
  /\ panel
  /\ moodReq = "pending"
  /\ moodReq' = "done"
  /\ mood' = <<>>
  /\ useMemo(<<>>, stored)
  /\ UNCHANGED <<page, html, loading, error, fetchedAt, reqs, filter, panel, prevSession>>
  /\ UNCHANGED scriptVars

\* the statuses of the responses
Statuses == { 200, 503 }

NextApp ==
  \/ \E stored \in BOOLEAN : Mount(stored)
  \/ \E stored \in BOOLEAN : Refresh(stored)
  \/ \E key \in Keys, stored \in BOOLEAN : KeyDown(key, stored)
  \/ \E t \in Elems(tabs), stored \in BOOLEAN : ChipClick(t, stored)
  \/ \E r \in 1..MaxRequests, stored \in BOOLEAN : FetchRejects(r, stored)
  \/ \E r \in 1..MaxRequests, status \in Statuses, stored \in BOOLEAN :
       FetchResolves(r, status, stored)
  \/ \E r \in 1..MaxRequests, text \in WikiPages, stored \in BOOLEAN :
       TextResolves(r, text, stored)
  \/ \E r \in 1..MaxRequests, stored \in BOOLEAN : TextRejects(r, stored)
  \/ \E m \in MoodFiles, stored \in BOOLEAN : MoodResolves(m, stored)
  \/ \E stored \in BOOLEAN : MoodFails(stored)

SpecApp == InitApp /\ [][NextApp]_vars

\* every fetch of a request settles
SpecAppLive ==
  /\ SpecApp
  /\ \A r \in 1..MaxRequests :
       WF_vars(\E stored \in BOOLEAN :
                 \/ FetchRejects(r, stored)
                 \/ \E status \in Statuses : FetchResolves(r, status, stored)
                 \/ \E text \in WikiPages : TextResolves(r, text, stored)
                 \/ TextRejects(r, stored))

-----------------------------------------------------------------------------
(* Properties of the dashboard *)

\* every hotspot row shows as `before` what the previous session stored for
\* the place (0 if nothing) and as `change` the difference now - before
BeforeIsPreviousSession ==
  \A n \in 1..Len(hotspots) :
    /\ hotspots[n].before = beforeOf(ParsedSnapshot(prevSession), hotspots[n].place)
    /\ hotspots[n].change = hotspots[n].now - hotspots[n].before

\* the stored snapshot changes only in a render of the fetched mood, to the
\* sampleCounts of that mood, the deltas shown being those against the
\* snapshot of the previous session
SnapshotAfterDeltas ==
  prevVolumes' # prevVolumes =>
    /\ moodReq' = "done"
    /\ prevVolumes' = Some(areaVolumes(mood'))
    /\ hotspots' = hotspotsOf(mood', ParsedSnapshot(prevSession))

\* C29: in InsightsPanel the "before" value of each hotspot is the sampleCount
\* the previous session stored for the place in rosebud_prevVolumes (0 if
\* absent) and change = now - before, whatever the order of the first render
\* and the completions of the fetches; the snapshot is replaced by the current
\* sampleCounts only after the deltas against the previous session were computed.
C29_DeltasAgainstPreviousSession ==
  /\ []BeforeIsPreviousSession
  /\ [][SnapshotAfterDeltas]_vars

InFlight(r) == r \in 1..Len(reqs) /\ reqs[r] \in { "fetch", "text" }

Ended(r) == r \in 1..Len(reqs) /\ reqs[r] \in { "ok", "failed" }

LoadingWhileInFlight == (\E r \in 1..MaxRequests : InFlight(r)) => loading

LoadingClearedWhenIdle ==
  loading /\ ~loading' => ~\E r \in 1..MaxRequests : InFlight(r)'

\* a request that ends has set html and fetchedAt, or has set error and left
\* html as it was
EndsInHtmlOrError ==
  \A r \in 1..MaxRequests :
    InFlight(r) /\ Ended(r)' =>
      \/ reqs'[r] = "ok" /\ html' \in WikiPages /\ fetchedAt' # None
      \/ reqs'[r] = "failed" /\ error' # "" /\ html' = html

\* C30: in useFetchWiki loading is true whenever at least one fetchPage
\* request is in flight, overlapping requests of the mount effect, the Refresh
\* button and the R shortcut included; loading becomes false only when no
\* request is in flight; every request eventually ends with html and fetchedAt
\* set or with error set; a failed request leaves the fetched html unchanged.
C30_LoadingCoversAllRequests ==
  /\ []LoadingWhileInFlight
  /\ [][LoadingClearedWhenIdle /\ EndsInHtmlOrError]_vars
  /\ \A r \in 1..MaxRequests : InFlight(r) ~> Ended(r)
=============================================================================
